---- MODULE Spec2Model ----
(***************************************************************************)
(* A model of BitCurrencyBot (perfect_bot_telegram.py): the rate           *)
(* resolution chain with its Redis cache, the daily request quota kept in  *)
(* the Redis key 'stats', subscriptions, price alerts and history.         *)
(*                                                                         *)
(* Redis is modelled as a set of variables, one per key family.            *)
(*                                                                         *)
(* Time is in seconds and has two scales.  `now` moves in half days: it    *)
(* decides the date and the expiry of the keys that live for a day or      *)
(* more, which carry the time at which they expire.  What is measured in   *)
(* seconds is kept as a clock of its own: a cached rate carries the        *)
(* seconds it still has to live, a user the seconds since the last         *)
(* accepted request (no further than the longest throttle).  The seconds   *)
(* that pass between two half-day steps are taken to add up to less than   *)
(* half a day.                                                             *)
(* Floats are modelled as exact rationals [n, d] (d >= 1, lowest terms).   *)
(* Upstream provider answers are an input of every handler that resolves   *)
(* a rate: a "feed", the sequence of raw answers the successive HTTP       *)
(* queries of one get_exchange_rate call receive.                          *)
(***************************************************************************)
EXTENDS Integers, Sequences, FiniteSets, TLC

VARIABLES
    now,        \* time.time(), in seconds, to the half day
    stats,      \* Redis key 'stats': NoKey or [val, expires]
    cache,      \* Redis keys 'rate:<from>_<to>': key -> [val, ttl]
    alerts,     \* Redis keys 'alerts:<user>': user -> [val, expires]
    history,    \* Redis keys 'history:<user>': user -> [val, expires]
    user_data,  \* context.user_data of each user: [since_request, invoice]
    last,       \* what the most recent handler run did (observation only)
    quotes,     \* per user: conversion quotes delivered on the current date
    notified,   \* per user: the alert notifications sent so far, in order
    retrying,   \* the update whose reply failed and which retry_send runs again
    session     \* dashboard: per client, whether its session holds 'authenticated'

vars == <<now, stats, cache, alerts, history, user_data, last, quotes, notified, retrying, session>>

----------------------------------------------------------------------------
(* Program constants *)

FREE_REQUEST_LIMIT == 5
SUBSCRIPTION_PRICE == 5
CACHE_TIMEOUT == 300
HISTORY_LIMIT == 20
DAY == 86400
STATS_TTL == 86400
LONG_TTL == 2592000
DELAY_FREE == 5
DELAY_SUBSCRIBED == 1
MAX_RETRIES == 3

ADMIN_IDS == {"1058875848", "6403305626"}

\* The part of CURRENCIES the model uses: symbol -> provider code.
CURRENCIES ==
    [k \in {"usd", "usdt", "btc", "uah", "eur"} |->
        CASE k = "usd" -> "USDT"
          [] k = "usdt" -> "USDT"
          [] k = "btc" -> "BTC"
          [] k = "uah" -> "UAH"
          [] k = "eur" -> "EUR"]

\* Codes shown with 8 fractional digits.
HighPrecisionCodes == {"BTC", "ETH", "XRP", "DOGE", "ADA", "SOL", "LTC", "BNB", "TRX", "DOT", "MATIC"}

----------------------------------------------------------------------------
(* Bounds of the model *)

MaxHalfDays == 2    \* half-day steps
MaxTotal == 6       \* stats["total_requests"] is capped here
MaxQuotes == 6      \* quotes[u].n is capped here
MaxHistory == 6     \* history entries a user gathers
MaxAlerts == 2      \* alerts stored per user
MaxTenDays == 3     \* ten-day steps

----------------------------------------------------------------------------
(* Floats as rationals *)

RECURSIVE Gcd(_, _)
Gcd(a, b) == IF b = 0 THEN a ELSE Gcd(b, a % b)

Rat(n, d) == LET g == Gcd(n, d) IN IF g = 0 THEN [n |-> 0, d |-> 1] ELSE [n |-> n \div g, d |-> d \div g]

None == [n |-> 0, d |-> 0]      \* Python's None where a float is expected

Raises == [n |-> 0, d |-> -1]   \* no value: the evaluation raised an exception

NaN == [n |-> 0, d |-> -2]      \* float('nan'): no order, truthy, absorbing

IsNum(x) == x.d > 0

RMul(a, b) == Rat(a.n * b.n, a.d * b.d)

RDiv(a, b) == Rat(a.n * b.d, a.d * b.n)

RInv(a) == Rat(a.d, a.n)

RLeq(a, b) == a.n * b.d <= b.n * a.d

RLess(a, b) == a.n * b.d < b.n * a.d

One == Rat(1, 1)

Zero == Rat(0, 1)

UAH_TO_USDT_FALLBACK == Rat(239, 10000)

USDT_TO_UAH_FALLBACK == Rat(4184, 100)

----------------------------------------------------------------------------
(* Strings *)

\* str.lower() on the symbols the model's inputs use.
Lower(s) ==
    CASE s = "USD" -> "usd"
      [] s = "BTC" -> "btc"
      [] s = "UAH" -> "uah"
      [] OTHER -> s

\* str.upper() on the keys of CURRENCIES the model uses.
Upper(s) ==
    CASE s = "usd" -> "USD"
      [] s = "usdt" -> "USDT"
      [] s = "btc" -> "BTC"
      [] s = "uah" -> "UAH"
      [] s = "eur" -> "EUR"
      [] OTHER -> s

\* One whitespace-separated token of a reply text: a word, or a number.
Word(s) == [num |-> FALSE, s |-> s, v |-> None]

Num(r) == [num |-> TRUE, s |-> "", v |-> r]

\* float(token): ok is FALSE where Python raises ValueError.
ParseFloat(tok) == [ok |-> tok.num, v |-> tok.v]

----------------------------------------------------------------------------
(* Upstream providers *)

\* What one HTTP query to a ticker endpoint comes back with.
Err == [kind |-> "error", price |-> 0]        \* timeout, network error, body that is no JSON
Missing == [kind |-> "missing", price |-> 0]  \* JSON without the price of the pair
Price(p) == [kind |-> "price", price |-> p]   \* JSON with the numeric price p
Null == [kind |-> "null", price |-> 0]        \* JSON whose price is null
NotNumber == [kind |-> "text", price |-> 0]   \* JSON whose price is a string that is no number
NanPrice == [kind |-> "nan", price |-> 0]     \* JSON whose price is the string "nan"

\* The i-th answer of a feed; a query past the end of the feed fails.
Resp(feed, i) == IF i <= Len(feed) THEN feed[i] ELSE Err

\* fetch_rate: None unless the answer carries a price > 0.  float(None) raises
\* TypeError, which is not among the exceptions fetch_rate catches.
fetch_rate(resp, reverse) ==
    IF resp.kind = "price"
    THEN IF resp.price <= 0
         THEN None
         ELSE IF reverse THEN RInv(Rat(resp.price, 1)) ELSE Rat(resp.price, 1)
    ELSE IF resp.kind = "null"
    THEN Raises
    ELSE IF resp.kind = "nan"
    THEN NaN        \* float("nan") <= 0 is False, and 1 / nan is nan
    ELSE None

\* fetch_whitebit_rate: the same validation, on the ticker's last_price.
fetch_whitebit_rate(resp, reverse) ==
    IF resp.kind = "price"
    THEN IF resp.price <= 0
         THEN None
         ELSE IF reverse THEN RInv(Rat(resp.price, 1)) ELSE Rat(resp.price, 1)
    ELSE IF resp.kind = "null"
    THEN Raises
    ELSE IF resp.kind = "nan"
    THEN NaN        \* float("nan") <= 0 is False, and 1 / nan is nan
    ELSE None

\* One answered query, as a log entry: who was asked what, the answer, the rate
\* taken from it.
Answered(api, pair, reverse, resp) ==
    [api |-> api, pair |-> pair, reverse |-> reverse, resp |-> resp,
     rate |-> IF api = "Binance" THEN fetch_rate(resp, reverse)
              ELSE fetch_whitebit_rate(resp, reverse)]

\* The i-th query of a call of get_exchange_rate.
Query(feed, i, api, pair, reverse) == Answered(api, pair, reverse, Resp(feed, i))

BinancePair(a, b) == a \o b

WhiteBITPair(a, b) == a \o "_" \o b

PairOf(api, a, b) == IF api = "Binance" THEN BinancePair(a, b) ELSE WhiteBITPair(a, b)

\* `q1 or q2`: the second query is made only if the first gave nothing.
FirstOf(q1, q2) ==
    IF q1.rate # None
    THEN [rate |-> q1.rate, calls |-> <<q1>>]
    ELSE [rate |-> q2.rate, calls |-> <<q1, q2>>]

\* The leg that is not asked for, an exception having left the function before.
NoLeg == [rate |-> None, calls |-> <<>>]

\* `fetch(a b) or fetch(b a, reverse=True)`
Leg(feed, i, api, a, b) ==
    FirstOf(Query(feed, i, api, PairOf(api, a, b), FALSE),
            Query(feed, i + 1, api, PairOf(api, b, a), TRUE))

----------------------------------------------------------------------------
(* Redis: rate cache *)

\* What may go wrong around one run of a handler or a function:
\*   "get"         every redis_client.get raises
\*   "unparsable"  the value of 'stats' is no JSON: json.loads raises
\*   "setex"       every redis_client.setex raises
\*   "send"        bot.send_message raises TelegramError
Faults == {"none", "get", "unparsable", "setex", "send"}

\* The faults under which reading 'stats' raises.
ReadFaults == {"get", "unparsable"}

\* What get_exchange_rate gives when an exception leaves it: no value at all.
Escapes(c, step, calls) ==
    [result |-> None, rate |-> None, step |-> step, rate_info |-> <<>>,
     cache |-> c, calls |-> calls]

\* An exception left the call that gave r.
Escaped(r) == r.step \in {"raised", "store_error"}

CacheKey(from_key, to_key) == "rate:" \o from_key \o "_" \o to_key

\* A cache that is never hit.
CacheGet_miss(c, key) == None

\* redis_client.get(cache_key): None when the key is absent or has expired.
CacheGet(c, key) ==
    IF key \in DOMAIN c /\ c[key].ttl > 0 THEN c[key].val ELSE None

\* A write that is acknowledged and lost.
CacheSetex_lost(c, key, ttl, rate) == c

\* redis_client.setex(cache_key, ttl, rate)
CacheSetex(c, key, ttl, rate) ==
    [k \in DOMAIN c \cup {key} |-> IF k = key THEN [val |-> rate, ttl |-> ttl] ELSE c[k]]

----------------------------------------------------------------------------
(* get_exchange_rate: the steps of the resolution chain *)

NoStep == [rate |-> None, shown |-> None, tag |-> <<>>, calls |-> <<>>]

\* Direct pair on one provider, answered by q.
Direct(api, q) ==
    [rate |-> q.rate, shown |-> q.rate,
     tag |-> <<Word("(" \o api), Word("direct)")>>, calls |-> <<q>>]

StepDirect(feed, i, api, x) ==
    Direct(api, Query(feed, i, api, PairOf(api, x.from_code, x.to_code), FALSE))

\* Reversed pair on one provider, answered by q; the text shows 1/rate.
Reverse(api, q) ==
    [rate |-> q.rate,
     shown |-> IF IsNum(q.rate) THEN RInv(q.rate) ELSE IF q.rate = NaN THEN NaN ELSE None,
     tag |-> <<Word("(" \o api), Word("reverse)")>>, calls |-> <<q>>]

StepReverse(feed, i, api, x) ==
    Reverse(api, Query(feed, i, api, PairOf(api, x.to_code, x.from_code), TRUE))

\* The bridged step once both legs are known and `rate` computed from them.
ViaRate(api, bcode, rate_from, rate_to, rate) ==
    IF rate_from.rate = Raises \/ rate_to.rate = Raises
    THEN [rate |-> Raises, shown |-> None,
          tag |-> <<Word("(" \o api), Word("via"), Word(bcode \o ")")>>,
          calls |-> rate_from.calls \o rate_to.calls]
    ELSE IF rate_from.rate # None /\ rate_to.rate # None /\ RLess(Zero, rate)
    THEN [rate |-> rate, shown |-> rate,
          tag |-> <<Word("(" \o api), Word("via"), Word(bcode \o ")")>>,
          calls |-> rate_from.calls \o rate_to.calls]
    ELSE [rate |-> None, shown |-> None,
          tag |-> <<Word("(" \o api), Word("via"), Word(bcode \o ")")>>,
          calls |-> rate_from.calls \o rate_to.calls]

Via(api, x, bkey, bcode, rate_from, rate_to) ==
    ViaRate(api, bcode, rate_from, rate_to,
            IF IsNum(rate_from.rate) /\ IsNum(rate_to.rate) /\ x.to_key # bkey
            THEN RDiv(rate_from.rate, rate_to.rate)
            ELSE IF rate_to.rate = NaN /\ x.to_key # bkey
            THEN NaN
            ELSE rate_from.rate)

\* The second leg is asked after the queries of the first.
ViaTo(feed, i, api, x, bkey, bcode, rate_from) ==
    Via(api, x, bkey, bcode, rate_from,
        IF rate_from.rate = Raises THEN NoLeg
        ELSE Leg(feed, i + Len(rate_from.calls), api, bcode, x.to_code))

\* Through a bridge asset (code `bcode`, key `bkey`) on one provider.
StepVia(feed, i, api, x, bkey, bcode) ==
    IF x.from_key # bkey \/ x.to_key # bkey
    THEN ViaTo(feed, i, api, x, bkey, bcode, Leg(feed, i, api, x.from_code, bcode))
    ELSE NoStep

\* The hard-coded UAH/USDT rates.
StepFallback(x) ==
    IF x.from_key = "uah" /\ x.to_key = "usdt"
    THEN [rate |-> UAH_TO_USDT_FALLBACK, shown |-> UAH_TO_USDT_FALLBACK,
          tag |-> <<Word("(fallback)")>>, calls |-> <<>>]
    ELSE IF x.from_key = "usdt" /\ x.to_key = "uah"
    THEN [rate |-> USDT_TO_UAH_FALLBACK, shown |-> USDT_TO_UAH_FALLBACK,
          tag |-> <<Word("(fallback)")>>, calls |-> <<>>]
    ELSE NoStep

\* The hard-coded rates tried before the providers.
StepOrder_fallback_first ==
    <<"fallback", "binance_direct", "binance_reverse", "binance_via_usdt",
      "whitebit_direct", "whitebit_reverse", "whitebit_via_usdt", "binance_via_btc">>

\* The order in which get_exchange_rate tries its steps.
StepOrder ==
    <<"binance_direct", "binance_reverse", "binance_via_usdt",
      "whitebit_direct", "whitebit_reverse", "whitebit_via_usdt",
      "binance_via_btc", "fallback">>

Step(name, feed, i, x) ==
    CASE name = "binance_direct" -> StepDirect(feed, i, "Binance", x)
      [] name = "binance_reverse" -> StepReverse(feed, i, "Binance", x)
      [] name = "binance_via_usdt" -> StepVia(feed, i, "Binance", x, "usdt", "USDT")
      [] name = "whitebit_direct" -> StepDirect(feed, i, "WhiteBIT", x)
      [] name = "whitebit_reverse" -> StepReverse(feed, i, "WhiteBIT", x)
      [] name = "whitebit_via_usdt" -> StepVia(feed, i, "WhiteBIT", x, "usdt", "USDT")
      [] name = "binance_via_btc" -> StepVia(feed, i, "Binance", x, "btc", "BTC")
      [] name = "fallback" -> StepFallback(x)

\* Run the steps from the k-th on, the first success wins.
RECURSIVE Resolve(_, _, _, _)

\* The k-th step gave s.
Tried(k, feed, x, calls, s) ==
    IF s.rate = Raises
    THEN [rate |-> Raises, shown |-> None, tag |-> <<>>,
          step |-> StepOrder[k], calls |-> calls \o s.calls]
    ELSE IF s.rate # None
    THEN [rate |-> s.rate, shown |-> s.shown, tag |-> s.tag,
          step |-> StepOrder[k], calls |-> calls \o s.calls]
    ELSE Resolve(k + 1, feed, x, calls \o s.calls)

Resolve(k, feed, x, calls) ==
    IF k > Len(StepOrder)
    THEN [rate |-> None, shown |-> None, tag |-> <<>>, step |-> "none", calls |-> calls]
    ELSE Tried(k, feed, x, calls, Step(StepOrder[k], feed, Len(calls) + 1, x))

\* The text of a quote: "1 <FROM> = <number> <TO> <tag>", as split() sees it.
RateInfo(from_name, shown, to_name, tag) ==
    <<Num(One), Word(from_name), Word("="), Num(shown), Word(to_name)>> \o tag

\* An identity pair told at another rate.
IdentityRate_double == Rat(2, 1)

\* An identity pair is told without a provider: rate 1.0, cached like the rest.
IdentityRate == One

\* The end of get_exchange_rate, the chain having given r.
Quote(c, cache_key, amount, from_key, to_key, r, fault) ==
    IF r.rate = Raises
    THEN Escapes(c, "raised", r.calls)
    ELSE IF r.rate # None /\ fault = "setex"
    THEN Escapes(c, "store_error", r.calls)
    ELSE IF r.rate # None
    THEN [result |-> IF r.rate = NaN THEN NaN ELSE RMul(amount, r.rate),
          rate |-> r.rate, step |-> r.step,
          rate_info |-> RateInfo(
              IF r.step = "fallback" THEN Upper(from_key) ELSE CURRENCIES[from_key],
              r.shown,
              IF r.step = "fallback" THEN Upper(to_key) ELSE CURRENCIES[to_key],
              r.tag),
          cache |-> CacheSetex(c, cache_key, CACHE_TIMEOUT, r.rate),
          calls |-> r.calls]
    ELSE [result |-> None, rate |-> None, step |-> "none",
          rate_info |-> <<Word("Rate"), Word("unavailable")>>,
          cache |-> c, calls |-> r.calls]

\* A cache hit that writes the entry again, with a new life.
LookedUp_refreshing(c, from_key, to_key, cache_key, amount, feed, cached, fault) ==
    IF fault = "get"
    THEN Escapes(c, "store_error", <<>>)
    ELSE IF cached # None
    THEN [result |-> IF cached = NaN THEN NaN ELSE RMul(amount, cached),
          rate |-> cached, step |-> "cached",
          rate_info |-> RateInfo(Upper(from_key), cached, Upper(to_key), <<Word("(cached)")>>),
          cache |-> CacheSetex(c, cache_key, CACHE_TIMEOUT, cached), calls |-> <<>>]
    ELSE IF from_key \notin DOMAIN CURRENCIES \/ to_key \notin DOMAIN CURRENCIES
    THEN [result |-> None, rate |-> None, step |-> "invalid",
          rate_info |-> <<Word("Unsupported"), Word("currency")>>,
          cache |-> c, calls |-> <<>>]
    ELSE IF from_key = to_key /\ fault = "setex"
    THEN Escapes(c, "store_error", <<>>)
    ELSE IF from_key = to_key
    THEN [result |-> RMul(amount, IdentityRate), rate |-> IdentityRate, step |-> "identity",
          rate_info |-> RateInfo(Upper(from_key), One, Upper(to_key), <<>>),
          cache |-> CacheSetex(c, cache_key, CACHE_TIMEOUT, IdentityRate), calls |-> <<>>]
    ELSE Quote(c, cache_key, amount, from_key, to_key,
               Resolve(1, feed,
                       [from_key |-> from_key, to_key |-> to_key,
                        from_code |-> CURRENCIES[from_key], to_code |-> CURRENCIES[to_key]],
                       <<>>),
               fault)

\* get_exchange_rate after its cache lookup, which gave `cached`.
LookedUp(c, from_key, to_key, cache_key, amount, feed, cached, fault) ==
    IF fault = "get"
    THEN Escapes(c, "store_error", <<>>)
    ELSE IF cached # None
    THEN [result |-> IF cached = NaN THEN NaN ELSE RMul(amount, cached),
          rate |-> cached, step |-> "cached",
          rate_info |-> RateInfo(Upper(from_key), cached, Upper(to_key), <<Word("(cached)")>>),
          cache |-> c, calls |-> <<>>]
    ELSE IF from_key \notin DOMAIN CURRENCIES \/ to_key \notin DOMAIN CURRENCIES
    THEN [result |-> None, rate |-> None, step |-> "invalid",
          rate_info |-> <<Word("Unsupported"), Word("currency")>>,
          cache |-> c, calls |-> <<>>]
    ELSE IF from_key = to_key /\ fault = "setex"
    THEN Escapes(c, "store_error", <<>>)
    ELSE IF from_key = to_key
    THEN [result |-> RMul(amount, IdentityRate), rate |-> IdentityRate, step |-> "identity",
          rate_info |-> RateInfo(Upper(from_key), One, Upper(to_key), <<>>),
          cache |-> CacheSetex(c, cache_key, CACHE_TIMEOUT, IdentityRate), calls |-> <<>>]
    ELSE Quote(c, cache_key, amount, from_key, to_key,
               Resolve(1, feed,
                       [from_key |-> from_key, to_key |-> to_key,
                        from_code |-> CURRENCIES[from_key], to_code |-> CURRENCIES[to_key]],
                       <<>>),
               fault)

Lookup(c, from_key, to_key, amount, feed, fault) ==
    LookedUp(c, from_key, to_key, CacheKey(from_key, to_key), amount, feed,
             CacheGet(c, CacheKey(from_key, to_key)), fault)

\* get_exchange_rate looking the symbols up as they were typed.
get_exchange_rate_cased(c, from_currency, to_currency, amount, feed, fault) ==
    Lookup(c, from_currency, to_currency, amount, feed, fault)

\* get_exchange_rate(from_currency, to_currency, amount) run on the rate cache c,
\* the providers answering its queries with `feed`, the store failing as `fault`
\* tells.  `cache` is the cache it leaves.
get_exchange_rate(c, from_currency, to_currency, amount, feed, fault) ==
    Lookup(c, Lower(from_currency), Lower(to_currency), amount, feed, fault)

----------------------------------------------------------------------------
(* Redis: the 'stats' key, alerts and history *)

Users == {"1058875848", "111", "222"}

\* The browsers that call the dashboard.
Clients == {"owner", "visitor"}

EmptyFn == [k \in {} |-> 0]

\* json.loads('{}'): every field at the default its readers give it.
\* `order` is the order of the keys of stats["users"] (a dict keeps insertion order).
EmptyStats ==
    [users |-> EmptyFn, order |-> <<>>, total_requests |-> 0, request_types |-> EmptyFn,
     subscriptions |-> {}, revenue |-> 0]

NoKey == [present |-> FALSE, val |-> EmptyStats, expires |-> 0]

NoList == [present |-> FALSE, val |-> <<>>, expires |-> 0]

\* json.loads(redis_client.get('stats') or '{}')
StatsGet(s) == IF s.present /\ now < s.expires THEN s.val ELSE EmptyStats

\* redis_client.setex('stats', ttl, json.dumps(v))
StatsSetex(ttl, v) == [present |-> TRUE, val |-> v, expires |-> now + ttl]

\* json.loads(redis_client.get(f"<family>:{user_id}") or '[]')
ListGet(e) == IF e.present /\ now < e.expires THEN e.val ELSE <<>>

ListSetex(ttl, v) == [present |-> TRUE, val |-> v, expires |-> now + ttl]

\* time.strftime("%Y-%m-%d"), as the number of the day.
current_day == now \div DAY

\* stats["subscriptions"].get(user_id, False)
Subscribed(v, user_id) == user_id \in v.subscriptions

Infinity == "inf"   \* stands for the text "∞"

\* check_limit without its two early returns: every user is counted.
check_limit_counting(s, user_id, fault) ==
    LET v == StatsGet(s)
        user_data_ == IF user_id \in DOMAIN v.users
                      THEN v.users[user_id]
                      ELSE [requests |-> 0, last_reset |-> current_day]
        remaining == FREE_REQUEST_LIMIT - user_data_.requests
    IN  [can_proceed |-> remaining > 0, remaining |-> ToString(remaining)]

\* check_limit with a handler that lets the request through.
check_limit_open(s, user_id, fault) ==
    IF user_id \in ADMIN_IDS
    THEN [can_proceed |-> TRUE, remaining |-> Infinity]
    ELSE IF fault \in ReadFaults
    THEN [can_proceed |-> TRUE, remaining |-> ToString(FREE_REQUEST_LIMIT)]
    ELSE IF Subscribed(StatsGet(s), user_id)
    THEN [can_proceed |-> TRUE, remaining |-> Infinity]
    ELSE check_limit_counting(s, user_id, fault)

\* check_limit letting a user through who has no request left.
check_limit_inclusive(s, user_id, fault) ==
    IF user_id \in ADMIN_IDS
    THEN [can_proceed |-> TRUE, remaining |-> Infinity]
    ELSE IF fault \in ReadFaults
    THEN [can_proceed |-> FALSE, remaining |-> "0"]
    ELSE IF Subscribed(StatsGet(s), user_id)
    THEN [can_proceed |-> TRUE, remaining |-> Infinity]
    ELSE [can_proceed |-> ~check_limit_counting(s, user_id, fault).can_proceed
                          => check_limit_counting(s, user_id, fault).remaining = "0",
          remaining |-> check_limit_counting(s, user_id, fault).remaining]

\* check_limit(user_id), reading the 'stats' key as it is in s.  An exception
\* from the read or from json.loads ends in the handler, which denies.
check_limit(s, user_id, fault) ==
    IF user_id \in ADMIN_IDS
    THEN [can_proceed |-> TRUE, remaining |-> Infinity]
    ELSE IF fault \in ReadFaults
    THEN [can_proceed |-> FALSE, remaining |-> "0"]
    ELSE LET v == StatsGet(s)
         IN  IF Subscribed(v, user_id)
             THEN [can_proceed |-> TRUE, remaining |-> Infinity]
             ELSE LET user_data_ == IF user_id \in DOMAIN v.users
                                    THEN v.users[user_id]
                                    ELSE [requests |-> 0, last_reset |-> current_day]
                      remaining == FREE_REQUEST_LIMIT - user_data_.requests
                  IN  [can_proceed |-> remaining > 0, remaining |-> ToString(remaining)]

\* Counting on without looking at the date of the record.
BumpUser_no_reset(rec) ==
    [requests |-> rec.requests + 1, last_reset |-> current_day]

\* The record left as it was read: the request is not counted.
BumpUser_uncounted(rec) ==
    IF rec.last_reset # current_day
    THEN [requests |-> 0, last_reset |-> current_day]
    ELSE [requests |-> rec.requests, last_reset |-> rec.last_reset]

\* The per-user record save_stats leaves: reset on a new date, then count.
BumpUser(rec) ==
    IF rec.last_reset # current_day
    THEN [requests |-> 0 + 1, last_reset |-> current_day]
    ELSE [requests |-> rec.requests + 1, last_reset |-> rec.last_reset]

\* The TTL save_stats gives the 'stats' key.
SaveStatsTTL == STATS_TTL

\* save_stats(user_id, request_type): the 'stats' key it leaves.  Exceptions
\* are logged and nothing is written.
save_stats(s, user_id, request_type, fault) ==
    IF fault \in ReadFaults \cup {"setex"} THEN s ELSE
    LET v == StatsGet(s)
        old == IF user_id \in DOMAIN v.users
               THEN v.users[user_id]
               ELSE [requests |-> 0, last_reset |-> current_day]
        types == v.request_types
    IN  StatsSetex(SaveStatsTTL,
            [v EXCEPT
                !.users = [u \in DOMAIN v.users \cup {user_id} |->
                              IF u = user_id THEN BumpUser(old) ELSE v.users[u]],
                !.order = IF user_id \in DOMAIN v.users THEN v.order ELSE Append(v.order, user_id),
                !.total_requests = v.total_requests + 1,
                !.request_types = [t \in DOMAIN types \cup {request_type} |->
                              IF t = request_type
                              THEN (IF t \in DOMAIN types THEN types[t] ELSE 0) + 1
                              ELSE types[t]]])

\* A bounded list that turns the new entry away once it is full.
DequeAppend_keep_oldest(h, entry, maxlen) ==
    IF Len(h) >= maxlen THEN h ELSE Append(h, entry)

\* deque(history, maxlen=HISTORY_LIMIT) after append(entry)
DequeAppend(h, entry, maxlen) ==
    LET a == Append(h, entry)
    IN  IF Len(a) > maxlen THEN SubSeq(a, Len(a) - maxlen + 1, Len(a)) ELSE a

\* save_history(user_id, from, to, amount, result): the history key it leaves.
\* Exceptions are logged and nothing is written.
save_history(h, from_code, to_code, amount, result, fault) ==
    IF fault \in {"get", "setex"} THEN h ELSE
    ListSetex(LONG_TTL,
        DequeAppend(ListGet(h),
            [time |-> now, from |-> from_code, to |-> to_code, amount |-> amount, result |-> result],
            HISTORY_LIMIT))

----------------------------------------------------------------------------
(* Texts a user sends *)

\* The numeric tokens of the model's inputs: those for which
\* tok.replace('.', '', 1).isdigit() holds, with float(tok).
NumberTokens ==
    [t \in {"0", "0.0", "1", "2", "3", "100"} |->
        CASE t = "0" -> Zero
          [] t = "0.0" -> Zero
          [] t = "1" -> Rat(1, 1)
          [] t = "2" -> Rat(2, 1)
          [] t = "3" -> Rat(3, 1)
          [] t = "100" -> Rat(100, 1)]

IsDigitToken(t) == t \in DOMAIN NumberTokens

\* handle_message's reading of text.lower().split():
\* ok is FALSE where the code raises (ValueError, IndexError).
ParseRequest(parts) ==
    IF Len(parts) < 2
    THEN [ok |-> FALSE, amount |-> None, from |-> "", to |-> ""]
    ELSE IF IsDigitToken(parts[1])
    THEN IF Len(parts) < 3
         THEN [ok |-> FALSE, amount |-> None, from |-> "", to |-> ""]
         ELSE [ok |-> TRUE, amount |-> NumberTokens[parts[1]], from |-> parts[2], to |-> parts[3]]
    ELSE [ok |-> TRUE, amount |-> One, from |-> parts[1], to |-> parts[2]]

LowerAll(parts) == [i \in 1..Len(parts) |-> Lower(parts[i])]

----------------------------------------------------------------------------
(* What a handler run is seen to do *)

NoObs ==
    [op |-> "init", user |-> "", reply |-> "none",
     can_proceed |-> FALSE, remaining |-> "", shown_remaining |-> "",
     from |-> "", to |-> "", amount |-> None,
     result |-> None, rate |-> None, step |-> "", rate_info |-> <<>>, calls |-> <<>>,
     fault |-> "none", evaluated |-> 0, listing |-> <<>>,
     method |-> "", password |-> ""]

Obs(op, user, reply) == [NoObs EXCEPT !.op = op, !.user = user, !.reply = reply]

\* Obs with the quota decision and the resolution r of (from, to, amount) filled in.
ObsRate(op, user, reply, lim, shown, from, to, amount, r) ==
    [op |-> op, user |-> user, reply |-> reply,
     can_proceed |-> lim.can_proceed, remaining |-> lim.remaining, shown_remaining |-> shown,
     from |-> from, to |-> to, amount |-> amount,
     result |-> r.result, rate |-> r.rate, step |-> r.step,
     rate_info |-> r.rate_info, calls |-> r.calls,
     fault |-> "none", evaluated |-> 0, listing |-> <<>>,
     method |-> "", password |-> ""]

\* A quote reaches a user who is neither admin nor subscribed: count it for the date.
Delivered(q, user, exempt) ==
    IF exempt THEN q
    ELSE [q EXCEPT ![user] = IF q[user].day = current_day
                             THEN [day |-> current_day, n |-> q[user].n + 1]
                             ELSE [day |-> current_day, n |-> 1]]

QuoteRoom(user, exempt) ==
    /\ exempt \/ quotes[user].day # current_day \/ quotes[user].n < MaxQuotes
    /\ Len(ListGet(history[user])) < MaxHistory

\* The throttle both handle_message and button apply.
Throttled(user, delay) ==
    user_data[user].since_request >= 0 /\ user_data[user].since_request < delay

IsExempt(user) == user \in ADMIN_IDS \/ Subscribed(StatsGet(stats), user)

DelayOf(user) == IF IsExempt(user) THEN DELAY_SUBSCRIBED ELSE DELAY_FREE

----------------------------------------------------------------------------
(* Handlers *)

\* No update is waiting to be run again.
NoRetry ==
    [op |-> "", user |-> "", text |-> <<>>, first |-> "",
     sends |-> 0, counted |-> 0, waited |-> FALSE]

\* What a handler run leaves for retry_send.  A reply that raises
\* TelegramError (fault "send") inside a try hands the update to retry_send:
\* `first` is the reply of the update's first run, `sends` the replies tried
\* for it so far, `counted` the save_stats calls made for it so far.
Attempt(op, u, text, reply, counted, fault) ==
    IF fault # "send"
    THEN NoRetry
    ELSE [op |-> op, user |-> u, text |-> text,
          first |-> IF retrying.op = "" THEN reply ELSE retrying.first,
          sends |-> retrying.sends + 1,
          counted |-> retrying.counted + (IF counted THEN 1 ELSE 0),
          waited |-> FALSE]

\* /start.  `fault` is "send" when the reply raises TelegramError.
start(u, member, fault) ==
    IF ~member
    THEN \* the reply of enforce_subscription is outside every try
         /\ last' = Obs("start", u, "join")
         /\ retrying' = NoRetry
         /\ UNCHANGED <<now, stats, cache, alerts, history, user_data, quotes, notified, session>>
    ELSE /\ StatsGet(stats).total_requests < MaxTotal
         /\ stats' = save_stats(stats, u, "start", "none")
         /\ last' = Obs("start", u, "menu")
         /\ retrying' = Attempt("start", u, <<>>, "menu", TRUE, fault)
         /\ UNCHANGED <<now, cache, alerts, history, user_data, quotes, notified, session>>

\* handle_message writing the history entry for a failed resolution as well.
handle_message_logging_failures(u, member, text, feed, fault) ==
    LET is_subscribed == IsExempt(u)
        lim == check_limit(stats, u, fault)
        req == ParseRequest(LowerAll(text))
        r == get_exchange_rate(cache, req.from, req.to, req.amount, feed, fault)
        remaining_display == IF is_subscribed THEN Infinity ELSE lim.remaining
    IN  IF ~member
        THEN /\ last' = Obs("handle_message", u, "join")
             /\ retrying' = NoRetry
             /\ UNCHANGED <<now, stats, cache, alerts, history, user_data, quotes, notified, session>>
        ELSE IF fault \in ReadFaults
        THEN \* the read of 'stats' for is_subscribed is outside every try
             /\ last' = [Obs("handle_message", u, "none") EXCEPT !.fault = fault]
             /\ retrying' = NoRetry
             /\ UNCHANGED <<now, stats, cache, alerts, history, user_data, quotes, notified, session>>
        ELSE IF Throttled(u, DelayOf(u))
        THEN /\ last' = Obs("handle_message", u, "wait")
             /\ retrying' = Attempt("handle_message", u, text, "wait", FALSE, fault)
             /\ UNCHANGED <<now, stats, cache, alerts, history, user_data, quotes, notified, session>>
        ELSE IF ~lim.can_proceed
        THEN /\ last' = [Obs("handle_message", u, "limit") EXCEPT !.remaining = lim.remaining]
             /\ retrying' = Attempt("handle_message", u, text, "limit", FALSE, fault)
             /\ UNCHANGED <<now, stats, cache, alerts, history, user_data, quotes, notified, session>>
        ELSE IF ~req.ok
        THEN /\ user_data' = [user_data EXCEPT ![u].since_request = 0]
             /\ last' = [Obs("handle_message", u, "example") EXCEPT
                            !.can_proceed = TRUE, !.remaining = lim.remaining]
             /\ retrying' = Attempt("handle_message", u, text, "example", FALSE, fault)
             /\ UNCHANGED <<now, stats, cache, alerts, history, quotes, notified, session>>
        ELSE /\ StatsGet(stats).total_requests < MaxTotal
             /\ user_data' = [user_data EXCEPT ![u].since_request = 0]
             /\ stats' = save_stats(stats, u, req.from \o "_to_" \o req.to, fault)
             /\ cache' = r.cache
             /\ IF Escaped(r)
                THEN \* `except Exception`: the reply is the examples
                     /\ last' = [ObsRate("handle_message", u, "example", lim, "",
                                         req.from, req.to, req.amount, r) EXCEPT !.fault = fault]
                     /\ UNCHANGED <<quotes, history>>
                ELSE IF r.result # None
                THEN /\ QuoteRoom(u, is_subscribed)
                     /\ last' = [ObsRate("handle_message", u, "quote", lim, remaining_display,
                                         req.from, req.to, req.amount, r) EXCEPT !.fault = fault]
                     /\ quotes' = Delivered(quotes, u, is_subscribed)
                     /\ history' = [history EXCEPT ![u] =
                            save_history(history[u], CURRENCIES[Lower(req.from)],
                                         CURRENCIES[Lower(req.to)], req.amount, r.result, fault)]
                ELSE /\ last' = [ObsRate("handle_message", u, "error", lim, "",
                                         req.from, req.to, req.amount, r) EXCEPT !.fault = fault]
                     /\ history' = [history EXCEPT ![u] =
                            save_history(history[u], Upper(req.from), Upper(req.to),
                                         req.amount, r.result, fault)]
                     /\ UNCHANGED quotes
             /\ retrying' = Attempt("handle_message", u, text,
                                     IF Escaped(r) THEN "example"
                                     ELSE IF r.result # None THEN "quote" ELSE "error",
                                     TRUE, fault)
             /\ UNCHANGED <<now, alerts, notified, session>>

\* A text message that is no command.  `fault` is what goes wrong with the
\* store during the run; `last` records it when the run met it.
handle_message(u, member, text, feed, fault) ==
    LET is_subscribed == IsExempt(u)
        lim == check_limit(stats, u, fault)
        req == ParseRequest(LowerAll(text))
        r == get_exchange_rate(cache, req.from, req.to, req.amount, feed, fault)
        remaining_display == IF is_subscribed THEN Infinity ELSE lim.remaining
    IN  IF ~member
        THEN /\ last' = Obs("handle_message", u, "join")
             /\ retrying' = NoRetry
             /\ UNCHANGED <<now, stats, cache, alerts, history, user_data, quotes, notified, session>>
        ELSE IF fault \in ReadFaults
        THEN \* the read of 'stats' for is_subscribed is outside every try
             /\ last' = [Obs("handle_message", u, "none") EXCEPT !.fault = fault]
             /\ retrying' = NoRetry
             /\ UNCHANGED <<now, stats, cache, alerts, history, user_data, quotes, notified, session>>
        ELSE IF Throttled(u, DelayOf(u))
        THEN /\ last' = Obs("handle_message", u, "wait")
             /\ retrying' = Attempt("handle_message", u, text, "wait", FALSE, fault)
             /\ UNCHANGED <<now, stats, cache, alerts, history, user_data, quotes, notified, session>>
        ELSE IF ~lim.can_proceed
        THEN /\ last' = [Obs("handle_message", u, "limit") EXCEPT !.remaining = lim.remaining]
             /\ retrying' = Attempt("handle_message", u, text, "limit", FALSE, fault)
             /\ UNCHANGED <<now, stats, cache, alerts, history, user_data, quotes, notified, session>>
        ELSE IF ~req.ok
        THEN /\ user_data' = [user_data EXCEPT ![u].since_request = 0]
             /\ last' = [Obs("handle_message", u, "example") EXCEPT
                            !.can_proceed = TRUE, !.remaining = lim.remaining]
             /\ retrying' = Attempt("handle_message", u, text, "example", FALSE, fault)
             /\ UNCHANGED <<now, stats, cache, alerts, history, quotes, notified, session>>
        ELSE /\ StatsGet(stats).total_requests < MaxTotal
             /\ user_data' = [user_data EXCEPT ![u].since_request = 0]
             /\ stats' = save_stats(stats, u, req.from \o "_to_" \o req.to, fault)
             /\ cache' = r.cache
             /\ IF Escaped(r)
                THEN \* `except Exception`: the reply is the examples
                     /\ last' = [ObsRate("handle_message", u, "example", lim, "",
                                         req.from, req.to, req.amount, r) EXCEPT !.fault = fault]
                     /\ UNCHANGED <<quotes, history>>
                ELSE IF r.result # None
                THEN /\ QuoteRoom(u, is_subscribed)
                     /\ last' = [ObsRate("handle_message", u, "quote", lim, remaining_display,
                                         req.from, req.to, req.amount, r) EXCEPT !.fault = fault]
                     /\ quotes' = Delivered(quotes, u, is_subscribed)
                     /\ history' = [history EXCEPT ![u] =
                            save_history(history[u], CURRENCIES[Lower(req.from)],
                                         CURRENCIES[Lower(req.to)], req.amount, r.result, fault)]
                ELSE /\ last' = [ObsRate("handle_message", u, "error", lim, "",
                                         req.from, req.to, req.amount, r) EXCEPT !.fault = fault]
                     /\ UNCHANGED <<quotes, history>>
             /\ retrying' = Attempt("handle_message", u, text,
                                     IF Escaped(r) THEN "example"
                                     ELSE IF r.result # None THEN "quote" ELSE "error",
                                     TRUE, fault)
             /\ UNCHANGED <<now, alerts, notified, session>>

\* /subscribe issuing an invoice to a user who is subscribed already.
subscribe_again(u, member, invoice_ok) ==
    IF ~member
    THEN [user_data |-> user_data, reply |-> "join"]
    ELSE IF invoice_ok
    THEN [user_data |-> [user_data EXCEPT ![u].invoice = TRUE], reply |-> "invoice"]
    ELSE [user_data |-> user_data, reply |-> "payment_error"]

\* /subscribe: what it leaves in context.user_data, and its reply.
subscribe(u, member, invoice_ok) ==
    IF ~member
    THEN [user_data |-> user_data, reply |-> "join"]
    ELSE IF Subscribed(StatsGet(stats), u)
    THEN [user_data |-> user_data, reply |-> "already"]
    ELSE IF invoice_ok
    THEN [user_data |-> [user_data EXCEPT ![u].invoice = TRUE], reply |-> "invoice"]
    ELSE [user_data |-> user_data, reply |-> "payment_error"]

\* The /subscribe command.
subscribe_command(u, member, invoice_ok) ==
    /\ user_data' = subscribe(u, member, invoice_ok).user_data
    /\ last' = Obs("subscribe", u, subscribe(u, member, invoice_ok).reply)
    /\ UNCHANGED <<now, stats, cache, alerts, history, quotes, notified, retrying, session>>

\* An inline button: data is [action, from, to].  The store answers.
button(u, member, data, feed, invoice_ok) ==
    LET is_subscribed == IsExempt(u)
        lim == check_limit(stats, u, "none")
        r == get_exchange_rate(cache, data.from, data.to, One, feed, "none")
        stamped == [user_data EXCEPT ![u].since_request = 0]
    IN  IF ~member
        THEN /\ last' = Obs("button", u, "join")
             /\ UNCHANGED <<now, stats, cache, alerts, history, user_data, quotes, notified, retrying, session>>
        ELSE IF Throttled(u, DelayOf(u))
        THEN /\ last' = Obs("button", u, "wait")
             /\ UNCHANGED <<now, stats, cache, alerts, history, user_data, quotes, notified, retrying, session>>
        ELSE IF ~lim.can_proceed
        THEN /\ last' = [Obs("button", u, "limit") EXCEPT !.remaining = lim.remaining]
             /\ UNCHANGED <<now, stats, cache, alerts, history, user_data, quotes, notified, retrying, session>>
        ELSE IF data.action = "start"
        THEN /\ StatsGet(stats).total_requests < MaxTotal
             /\ user_data' = stamped
             /\ stats' = save_stats(stats, u, "start", "none")
             /\ last' = [Obs("button", u, "menu") EXCEPT
                            !.can_proceed = TRUE, !.remaining = lim.remaining]
             /\ UNCHANGED <<now, cache, alerts, history, quotes, notified, retrying, session>>
        ELSE IF data.action = "subscribe"
        THEN /\ user_data' = [stamped EXCEPT
                                 ![u].invoice = subscribe(u, member, invoice_ok).user_data[u].invoice]
             /\ last' = [Obs("button", u, subscribe(u, member, invoice_ok).reply) EXCEPT
                            !.can_proceed = TRUE, !.remaining = lim.remaining]
             /\ UNCHANGED <<now, stats, cache, alerts, history, quotes, notified, retrying, session>>
        ELSE IF data.action = "convert"
        THEN /\ user_data' = stamped
             /\ cache' = r.cache
             /\ IF Escaped(r)
                THEN \* nothing in button catches it: no reply
                     /\ last' = ObsRate("button", u, "none", lim, "",
                                        data.from, data.to, One, r)
                     /\ UNCHANGED <<quotes, history>>
                ELSE IF r.result # None
                THEN /\ QuoteRoom(u, is_subscribed)
                     /\ last' = ObsRate("button", u, "quote", lim, lim.remaining,
                                        data.from, data.to, One, r)
                     /\ quotes' = Delivered(quotes, u, is_subscribed)
                     /\ history' = [history EXCEPT ![u] =
                            save_history(history[u], CURRENCIES[data.from],
                                         CURRENCIES[data.to], One, r.result, "none")]
                ELSE /\ last' = ObsRate("button", u, "error", lim, "",
                                        data.from, data.to, One, r)
                     /\ UNCHANGED <<quotes, history>>
             /\ UNCHANGED <<now, stats, alerts, notified, retrying, session>>
        ELSE /\ user_data' = stamped
             /\ last' = [Obs("button", u, "menu") EXCEPT
                            !.can_proceed = TRUE, !.remaining = lim.remaining]
             /\ UNCHANGED <<now, stats, cache, alerts, history, quotes, notified, retrying, session>>

\* The payment loop of check_payment_job over the users in `todo`, each of
\* whose invoices is reported paid: the 'stats' key it leaves.
RECURSIVE GrantAll(_, _)
GrantAll(s, todo) ==
    IF todo = {}
    THEN s
    ELSE LET user_id == CHOOSE u \in todo : TRUE
             v == StatsGet(s)
             granted == StatsSetex(LONG_TTL,
                            [v EXCEPT !.subscriptions = v.subscriptions \cup {user_id},
                                      !.revenue = v.revenue + SUBSCRIPTION_PRICE])
         IN  GrantAll(granted, todo \ {user_id})

Invoiced == {u \in Users : user_data[u].invoice}

\* check_payment_job.  `seen` says whether the job's context.user_data holds the
\* users' invoices (it returns at once when it holds nothing); `paid` are the
\* users whose invoice the gateway reports as paid.
check_payment_job(seen, paid) ==
    IF ~seen \/ Invoiced = {}
    THEN /\ last' = Obs("check_payment_job", "", "skip")
         /\ UNCHANGED <<now, stats, cache, alerts, history, user_data, quotes, notified, retrying, session>>
    ELSE /\ paid \subseteq Invoiced
         /\ stats' = GrantAll(stats, paid)
         /\ user_data' = [u \in Users |->
                IF u \in paid THEN [user_data[u] EXCEPT !.invoice = FALSE] ELSE user_data[u]]
         /\ last' = Obs("check_payment_job", "", "done")
         /\ UNCHANGED <<now, cache, alerts, history, quotes, notified, retrying, session>>

\* reversed(history), in the order the listing goes through it.
RECURSIVE Reversed(_)
Reversed(h) == IF h = <<>> THEN <<>> ELSE Append(Reversed(Tail(h)), Head(h))

\* /history: the listing is the stored entries, the last stored first.
history_command(u, member) ==
    IF ~member
    THEN /\ last' = Obs("history", u, "join")
         /\ UNCHANGED <<now, stats, cache, alerts, history, user_data, quotes, notified, retrying, session>>
    ELSE IF ListGet(history[u]) = <<>>
    THEN /\ last' = Obs("history", u, "empty")
         /\ UNCHANGED <<now, stats, cache, alerts, history, user_data, quotes, notified, retrying, session>>
    ELSE /\ last' = [Obs("history", u, "listing") EXCEPT
                        !.listing = Reversed(ListGet(history[u]))]
         /\ UNCHANGED <<now, stats, cache, alerts, history, user_data, quotes, notified, retrying, session>>

----------------------------------------------------------------------------
(* Alerts *)

\* /alert writing a list that holds the new alert alone, as it would from a
\* list read before other alerts were stored.
alert_overwriting(u, member, args) ==
    IF ~member
    THEN /\ last' = Obs("alert", u, "join")
         /\ UNCHANGED <<now, stats, cache, alerts, history, user_data, quotes, notified, retrying, session>>
    ELSE IF Len(args) # 3 \/ ~IsDigitToken(args[3])
    THEN /\ last' = Obs("alert", u, "menu")
         /\ UNCHANGED <<now, stats, cache, alerts, history, user_data, quotes, notified, retrying, session>>
    ELSE IF Lower(args[1]) \notin DOMAIN CURRENCIES \/ Lower(args[2]) \notin DOMAIN CURRENCIES
    THEN /\ last' = Obs("alert", u, "unsupported")
         /\ UNCHANGED <<now, stats, cache, alerts, history, user_data, quotes, notified, retrying, session>>
    ELSE /\ Len(ListGet(alerts[u])) < MaxAlerts
         /\ alerts' = [alerts EXCEPT ![u] =
                ListSetex(LONG_TTL,
                    <<[from |-> Lower(args[1]), to |-> Lower(args[2]),
                       target |-> NumberTokens[args[3]]]>>)]
         /\ last' = Obs("alert", u, "alert_set")
         /\ UNCHANGED <<now, stats, cache, history, user_data, quotes, notified, retrying, session>>

\* /alert <from> <to> <rate>
alert(u, member, args) ==
    IF ~member
    THEN /\ last' = Obs("alert", u, "join")
         /\ UNCHANGED <<now, stats, cache, alerts, history, user_data, quotes, notified, retrying, session>>
    ELSE IF Len(args) # 3 \/ ~IsDigitToken(args[3])
    THEN /\ last' = Obs("alert", u, "menu")
         /\ UNCHANGED <<now, stats, cache, alerts, history, user_data, quotes, notified, retrying, session>>
    ELSE IF Lower(args[1]) \notin DOMAIN CURRENCIES \/ Lower(args[2]) \notin DOMAIN CURRENCIES
    THEN /\ last' = Obs("alert", u, "unsupported")
         /\ UNCHANGED <<now, stats, cache, alerts, history, user_data, quotes, notified, retrying, session>>
    ELSE /\ Len(ListGet(alerts[u])) < MaxAlerts
         /\ alerts' = [alerts EXCEPT ![u] =
                ListSetex(LONG_TTL, Append(ListGet(alerts[u]),
                    [from |-> Lower(args[1]), to |-> Lower(args[2]),
                     target |-> NumberTokens[args[3]]]))]
         /\ last' = Obs("alert", u, "alert_set")
         /\ UNCHANGED <<now, stats, cache, history, user_data, quotes, notified, retrying, session>>

\* The token of a quote text that check_alerts_job reads the rate from:
\* rate_info.split()[2], counted from 1 here.
AlertRateToken == 3

\* The inner loop of check_alerts_job: the alerts list[i..] of one user, on rate
\* cache c, the k-th and later feeds answering.  raised: an exception left the loop.
\* k - 1 is the number of alerts whose evaluation the job has begun.
RECURSIVE EvalAlerts(_, _, _, _, _, _, _, _)

\* Evaluated forgetting the alerts that do not fire: only a raised exception
\* keeps an alert.
Evaluated_dropping(list, i, feeds, k, updated, sent, r, fault) ==
    IF Escaped(r)
    THEN [cache |-> r.cache, updated |-> updated, sent |-> sent, k |-> k + 1, raised |-> TRUE]
    ELSE EvalAlerts(r.cache, list, i + 1, feeds, k + 1, updated, sent, fault)

\* The i-th alert, its rate resolution having given r.
Evaluated(list, i, feeds, k, updated, sent, r, fault) ==
    LET a == list[i]
        truthy == r.result # None /\ r.result # Zero
        seen == IF AlertRateToken <= Len(r.rate_info)
                THEN ParseFloat(r.rate_info[AlertRateToken])
                ELSE [ok |-> FALSE, v |-> None]
    IN  IF Escaped(r) \/ (truthy /\ ~seen.ok)
        THEN [cache |-> r.cache, updated |-> updated, sent |-> sent, k |-> k + 1, raised |-> TRUE]
        ELSE IF truthy /\ RLeq(seen.v, a.target)
        THEN \* sent or not (TelegramError is logged), the alert is not kept
             EvalAlerts(r.cache, list, i + 1, feeds, k + 1, updated,
                        IF fault = "send" THEN sent
                        ELSE Append(sent, [from |-> a.from, to |-> a.to,
                                           target |-> a.target, rate |-> seen.v]),
                        fault)
        ELSE EvalAlerts(r.cache, list, i + 1, feeds, k + 1, Append(updated, a), sent, fault)

EvalAlerts(c, list, i, feeds, k, updated, sent, fault) ==
    IF i > Len(list)
    THEN [cache |-> c, updated |-> updated, sent |-> sent, k |-> k, raised |-> FALSE]
    ELSE Evaluated(list, i, feeds, k, updated, sent,
                   get_exchange_rate(c, list[i].from, list[i].to, One,
                                     IF k <= Len(feeds) THEN feeds[k] ELSE <<>>, fault),
                   fault)

\* The outer loop of check_alerts_job over stats["users"], from its j-th key on.
RECURSIVE AlertsJob(_, _, _, _, _, _, _, _)

\* The j-th user, the loop over its alerts having given e.
Visited(order, j, al, nt, feeds, e, fault) ==
    LET user_id == order[j]
        told == [nt EXCEPT ![user_id] = nt[user_id] \o e.sent]
    IN  IF e.raised \/ fault = "setex"
        THEN [cache |-> e.cache, alerts |-> al, notified |-> told, k |-> e.k, raised |-> TRUE]
        ELSE AlertsJob(order, j + 1, e.cache,
                       [al EXCEPT ![user_id] = ListSetex(LONG_TTL, e.updated)],
                       told, feeds, e.k, fault)

AlertsJob(order, j, c, al, nt, feeds, k, fault) ==
    IF fault \in ReadFaults
    THEN \* the read of 'stats' raises: the job ends before its loop
         [cache |-> c, alerts |-> al, notified |-> nt, k |-> k, raised |-> TRUE]
    ELSE IF j > Len(order)
    THEN [cache |-> c, alerts |-> al, notified |-> nt, k |-> k, raised |-> FALSE]
    ELSE IF ListGet(al[order[j]]) = <<>>
    THEN AlertsJob(order, j + 1, c, al, nt, feeds, k, fault)
    ELSE Visited(order, j, al, nt, feeds,
                 EvalAlerts(c, ListGet(al[order[j]]), 1, feeds, k, <<>>, <<>>, fault),
                 fault)

\* check_alerts_job, its successive rate resolutions answered by `feeds`.
check_alerts_job(feeds, fault) ==
    LET j == AlertsJob(StatsGet(stats).order, 1, cache, alerts, notified, feeds, 1, fault)
    IN  /\ cache' = j.cache
        /\ alerts' = j.alerts
        /\ notified' = j.notified
        /\ last' = [Obs("check_alerts_job", "", IF j.raised THEN "error" ELSE "done")
                    EXCEPT !.fault = fault, !.evaluated = j.k - 1]
        /\ UNCHANGED <<now, stats, history, user_data, quotes, retrying, session>>

----------------------------------------------------------------------------
(* Time *)

\* Redis drops a key once its TTL has run out: the stores at time t.
ExpireStats(s, t) == IF s.present /\ t < s.expires THEN s ELSE NoKey

ExpireList(e, t) == IF e.present /\ t < e.expires THEN e ELSE NoList

\* The rate cache dt seconds later.
AgeCache(c, dt) ==
    [k \in {x \in DOMAIN c : c[x].ttl > dt} |-> [val |-> c[k].val, ttl |-> c[k].ttl - dt]]

\* context.user_data dt seconds later.
AgeUserData(d, dt) ==
    [u \in Users |->
        IF d[u].since_request < 0 THEN d[u]
        ELSE [d[u] EXCEPT !.since_request =
                 IF d[u].since_request + dt > DELAY_FREE THEN DELAY_FREE
                 ELSE d[u].since_request + dt]]

HalfDay == DAY \div 2

ShortStep == CACHE_TIMEOUT \div 2

\* Half the life of a cached rate passes: longer than any throttle.
Tick ==
    /\ cache' = AgeCache(cache, ShortStep)
    /\ user_data' = AgeUserData(user_data, ShortStep)
    /\ last' = Obs("time", "", "none")
    /\ UNCHANGED <<now, stats, alerts, history, quotes, notified, retrying, session>>

\* Half a day passes.
NextHalfDay ==
    /\ now \div HalfDay < MaxHalfDays
    /\ now' = now + HalfDay
    /\ stats' = ExpireStats(stats, now')
    /\ alerts' = [u \in Users |-> ExpireList(alerts[u], now')]
    /\ history' = [u \in Users |-> ExpireList(history[u], now')]
    /\ cache' = AgeCache(cache, HalfDay)
    /\ user_data' = AgeUserData(user_data, HalfDay)
    /\ last' = Obs("time", "", "none")
    /\ UNCHANGED <<quotes, notified, retrying, session>>

\* Ten days pass.
TenDays ==
    /\ now \div (10 * DAY) < MaxTenDays
    /\ now' = now + 10 * DAY
    /\ stats' = ExpireStats(stats, now')
    /\ alerts' = [u \in Users |-> ExpireList(alerts[u], now')]
    /\ history' = [u \in Users |-> ExpireList(history[u], now')]
    /\ cache' = AgeCache(cache, 10 * DAY)
    /\ user_data' = AgeUserData(user_data, 10 * DAY)
    /\ last' = Obs("time", "", "none")
    /\ UNCHANGED <<quotes, notified, retrying, session>>

----------------------------------------------------------------------------
(* The bot after start-up *)

Init ==
    /\ now = 0
    /\ stats = StatsSetex(LONG_TTL, EmptyStats)
    /\ cache = EmptyFn
    /\ alerts = [u \in Users |-> NoList]
    /\ history = [u \in Users |-> NoList]
    /\ user_data = [u \in Users |-> [since_request |-> -1, invoice |-> FALSE]]
    /\ last = NoObs
    /\ quotes = [u \in Users |-> [day |-> 0, n |-> 0]]
    /\ notified = [u \in Users |-> <<>>]
    /\ retrying = NoRetry
    /\ session = [c \in Clients |-> FALSE]

----------------------------------------------------------------------------
(* The daily quota of a free user *)

QuotaUsers == {"111"}

QuotaTexts == {<<"usd", "btc">>}

QuotaFeeds == {<<Price(2)>>}

QuotaButtons ==
    {[action |-> "start", from |-> "", to |-> ""],
     [action |-> "convert", from |-> "usd", to |-> "btc"],
     [action |-> "converter", from |-> "", to |-> ""]}

Next ==
    \/ \E u \in QuotaUsers : start(u, TRUE, "none")
    \/ \E u \in QuotaUsers, member \in BOOLEAN, text \in QuotaTexts, feed \in QuotaFeeds :
           handle_message(u, member, text, feed, "none")
    \/ \E u \in QuotaUsers, data \in QuotaButtons, feed \in QuotaFeeds :
           button(u, TRUE, data, feed, TRUE)
    \/ Tick
    \/ NextHalfDay

Spec == Init /\ [][Next]_vars

StaleFull(u) ==
    /\ u \in DOMAIN StatsGet(stats).users
    /\ StatsGet(stats).users[u].requests = FREE_REQUEST_LIMIT
    /\ StatsGet(stats).users[u].last_reset = current_day - 1

\* C4: when the stored record of a free user holds requests = FREE_REQUEST_LIMIT
\* with last_reset = yesterday, a conversion request of today is allowed, and
\* afterwards the record holds requests = 1 and last_reset = today.
C4_ResetOnNewDay ==
    [][\A u \in QuotaUsers :
          (/\ StaleFull(u)
           /\ last'.op = "handle_message"
           /\ last'.user = u
           /\ last'.reply \notin {"join", "wait", "example"})
          => /\ last'.reply = "quote"
             /\ StatsGet(stats').users[u] = [requests |-> 1, last_reset |-> current_day]]_vars

----------------------------------------------------------------------------
(* Subscriptions: an admin and a user who may pay *)

SubUsers == {"1058875848", "111"}

SubTexts == {<<"usd">>}

NextSub ==
    \/ \E u \in SubUsers : start(u, TRUE, "none")
    \/ \E u \in SubUsers, member \in BOOLEAN, text \in SubTexts :
           handle_message(u, member, text, <<>>, "none")
    \/ \E member \in BOOLEAN, invoice_ok \in BOOLEAN : subscribe_command("111", member, invoice_ok)
    \/ \E seen \in BOOLEAN, paid \in SUBSET {"111"} : check_payment_job(seen, paid)
    \/ Tick
    \/ NextHalfDay

SpecSub == Init /\ [][NextSub]_vars

\* C5: for an admin or a subscribed user check_limit answers (True, "∞"),
\* whatever request count is stored for the user.
C5_ExemptUnlimited ==
    \A u \in Users :
        (u \in ADMIN_IDS \/ Subscribed(StatsGet(stats), u))
        => check_limit(stats, u, "none") = [can_proceed |-> TRUE, remaining |-> Infinity]

\* A subscribed user whose stored count has reached the limit was just let through.
C5_Witness ==
    \E u \in Users \ ADMIN_IDS :
        /\ Subscribed(StatsGet(stats), u)
        /\ u \in DOMAIN StatsGet(stats).users
        /\ StatsGet(stats).users[u].requests >= FREE_REQUEST_LIMIT
        /\ last.op = "handle_message"
        /\ last.user = u
        /\ last.can_proceed
        /\ last.remaining = Infinity

\* C6: once a subscription is granted the user is subscribed in every later
\* state, whatever time passes.
C6_SubscriptionKept ==
    [][\A u \in Users :
          Subscribed(StatsGet(stats), u) => Subscribed(StatsGet(stats'), u)]_vars

----------------------------------------------------------------------------
(* Rate resolution on its own: calls of get_exchange_rate as time passes *)

\* A call of get_exchange_rate, as its callers make it.
GetExchangeRate(from_currency, to_currency, amount, feed, fault) ==
    LET r == get_exchange_rate(cache, from_currency, to_currency, amount, feed, fault)
    IN  /\ cache' = r.cache
        /\ last' = [ObsRate("get_exchange_rate", "",
                            IF Escaped(r) THEN "none"
                            ELSE IF r.result # None THEN "quote" ELSE "error",
                            [can_proceed |-> TRUE, remaining |-> ""], "",
                            from_currency, to_currency, amount, r) EXCEPT !.fault = fault]
        /\ UNCHANGED <<now, stats, alerts, history, user_data, quotes, notified, retrying, session>>

MaxFails == 10      \* failed queries at the head of a feed

Fails(n) == [i \in 1..n |-> Err]

RateFeeds ==
    {Fails(n) \o <<Price(2)>> : n \in 0..MaxFails}
    \cup {Fails(n) \o <<Price(4), Price(2)>> : n \in 0..MaxFails}
    \cup {<<Price(0), Price(4)>>, <<Missing, Price(4)>>, <<>>}
    \cup {<<NotNumber, Price(4)>>, <<Null, Price(4)>>, <<Err, Null>>}

RatePairs == {<<"uah", "btc">>, <<"UAH", "usdt">>, <<"usd", "xyz">>}

Amounts == {One, Rat(3, 1)}

NextRate ==
    \/ \E pair \in RatePairs, amount \in Amounts, feed \in RateFeeds :
           GetExchangeRate(pair[1], pair[2], amount, feed, "none")
    \/ Tick

SpecRate == Init /\ [][NextRate]_vars

\* The last observation is a call of get_exchange_rate on registered currencies.
Resolved ==
    /\ last.from # ""
    /\ Lower(last.from) \in DOMAIN CURRENCIES
    /\ Lower(last.to) \in DOMAIN CURRENCIES

Failed(call) == call.rate = None

\* C2: the steps run in the order direct, reversed, second provider, bridged,
\* fallback: once Binance has failed the direct and the reversed pair, the next
\* query goes to WhiteBIT for the direct pair, whose price, if good, is the quote;
\* no bridged query is made before WhiteBIT's direct and reversed pairs.
C2_ProviderBeforeBridge ==
    (/\ Resolved
     /\ Len(last.calls) >= 3
     /\ Failed(last.calls[1])
     /\ Failed(last.calls[2]))
    => /\ last.calls[3].api = "WhiteBIT"
       /\ last.calls[3].pair =
              WhiteBITPair(CURRENCIES[Lower(last.from)], CURRENCIES[Lower(last.to)])
       /\ ~Failed(last.calls[3]) => last.step = "whitebit_direct"
       /\ (Failed(last.calls[3]) /\ Len(last.calls) >= 4) =>
              /\ last.calls[4].api = "WhiteBIT"
              /\ last.calls[4].pair =
                     WhiteBITPair(CURRENCIES[Lower(last.to)], CURRENCIES[Lower(last.from)])

\* The rate held for a pair whose entry has life left, None when there is none.
Cached(from_currency, to_currency) ==
    LET key == CacheKey(Lower(from_currency), Lower(to_currency))
    IN  IF key \in DOMAIN cache /\ cache[key].ttl > 0 THEN cache[key].val ELSE None

\* C8: while a rate r resolved for a pair is in the cache (CACHE_TIMEOUT has not
\* elapsed since its resolution), a call for the pair queries no provider, is
\* tagged cached, reports r and returns amount * r; a resolution that succeeds
\* leaves its rate in the cache for CACHE_TIMEOUT; and once the entry has run
\* out, a call for a registered pair of two currencies queries the providers.
C8_CachedWithinTTL ==
    [][last'.op = "get_exchange_rate" =>
        LET key == CacheKey(Lower(last'.from), Lower(last'.to))
            r == Cached(last'.from, last'.to)
        IN  /\ r # None =>
                  /\ last'.calls = <<>>
                  /\ last'.step = "cached"
                  /\ last'.rate = r
                  /\ last'.result = RMul(last'.amount, r)
                  /\ last'.rate_info[4] = Num(r)
                  /\ last'.rate_info[Len(last'.rate_info)] = Word("(cached)")
                  /\ cache' = cache
            /\ (r = None /\ last'.result # None) =>
                  cache'[key] = [val |-> last'.rate, ttl |-> CACHE_TIMEOUT]
            /\ (/\ r = None
                /\ Lower(last'.from) \in DOMAIN CURRENCIES
                /\ Lower(last'.to) \in DOMAIN CURRENCIES
                /\ Lower(last'.from) # Lower(last'.to)) =>
                  last'.calls # <<>>]_vars

\* A rate resolved from a reversed pair, half its life gone, was served from the
\* cache for another amount.
C8_Witness ==
    /\ last.op = "get_exchange_rate"
    /\ last.step = "cached"
    /\ last.amount = Rat(3, 1)
    /\ last.rate = Rat(1, 4)
    /\ last.result = Rat(3, 4)
    /\ Cached(last.from, last.to) = Rat(1, 4)
    /\ cache[CacheKey(Lower(last.from), Lower(last.to))].ttl < CACHE_TIMEOUT

----------------------------------------------------------------------------
(* Identity pairs *)

IdentityFeeds == {<<>>, <<Price(2)>>}

NextIdentity ==
    \/ \E x \in DOMAIN CURRENCIES, amount \in Amounts, feed \in IdentityFeeds :
           GetExchangeRate(x, Upper(x), amount, feed, "none")
    \/ Tick

SpecIdentity == Init /\ [][NextIdentity]_vars

----------------------------------------------------------------------------
(* Price alerts *)

AlertUsers == {"111"}

AlertArgs ==
    {<<"usd", "btc", "100">>, <<"USD", "btc", "0">>, <<"usd", "btc", "0.0">>,
     <<"usd", "xyz", "100">>, <<"usd", "btc", "abc">>, <<"usd", "btc">>}

\* What the providers answer to the resolutions of one run of the alerts job.
JobFeeds ==
    {<<f, f>> : f \in {<<Price(120)>>, <<Price(95)>>, <<Price(90)>>, <<>>}}

NextAlert ==
    \/ \E u \in AlertUsers : start(u, TRUE, "none")
    \/ \E u \in AlertUsers, member \in BOOLEAN, args \in AlertArgs : alert(u, member, args)
    \/ \E feeds \in JobFeeds : check_alerts_job(feeds, "none")
    \/ Tick
    \/ NextHalfDay

SpecAlert == Init /\ [][NextAlert]_vars

\* The one alert of a user who is the only one the job visits.
OnlyAlert(u) ==
    /\ StatsGet(stats).order = <<u>>
    /\ Len(ListGet(alerts[u])) = 1
    /\ ListGet(alerts[u])[1].target = Rat(100, 1)

\* The rate a run of the job answered by feeds observes for the first alert of u.
Observed(u, feeds) ==
    LET a == ListGet(alerts[u])[1]
    IN  get_exchange_rate(cache, a.from, a.to, One, feeds[1], "none").rate

\* C3: a stored alert with target T is notified exactly once, on the first run
\* of check_alerts_job that observes a rate <= T: a run that observes a higher
\* rate, or none, sends nothing and keeps the alert; a run that observes a rate
\* <= T sends one notification and drops the alert, so that no later run sends
\* another.
C3_NotifyOnce ==
    [][\A u \in AlertUsers, feeds \in JobFeeds :
          (/\ OnlyAlert(u)
           /\ last'.op = "check_alerts_job"
           /\ cache' = AlertsJob(<<u>>, 1, cache, alerts, notified, feeds, 1, "none").cache)
          => IF Observed(u, feeds) # None /\ RLeq(Observed(u, feeds), Rat(100, 1))
             THEN /\ Len(notified'[u]) = Len(notified[u]) + 1
                  /\ ListGet(alerts'[u]) = <<>>
             ELSE /\ notified'[u] = notified[u]
                  /\ ListGet(alerts'[u]) = ListGet(alerts[u])]_vars

\* C10: the alert command stores an alert only when both currency symbols are
\* in CURRENCIES and the target rate is greater than 0.
C10_StoredAlertsValid ==
    \A u \in Users :
        \A i \in 1..Len(ListGet(alerts[u])) :
            /\ ListGet(alerts[u])[i].from \in DOMAIN CURRENCIES
            /\ ListGet(alerts[u])[i].to \in DOMAIN CURRENCIES
            /\ RLess(Zero, ListGet(alerts[u])[i].target)

----------------------------------------------------------------------------
(* A free user's conversions when the first provider's direct price is bad *)

ZeroUsers == {"111"}

ZeroTexts == {<<"3", "usd", "btc">>}

ZeroFeeds == {<<Price(0), Price(2)>>, <<Price(2)>>}

NextZero ==
    \/ \E u \in ZeroUsers : start(u, TRUE, "none")
    \/ \E u \in ZeroUsers, member \in BOOLEAN, text \in ZeroTexts, feed \in ZeroFeeds :
           handle_message(u, member, text, feed, "none")
    \/ Tick

SpecZero == Init /\ [][NextZero]_vars

\* u has one request of today's quota left.
OneLeft(u) ==
    /\ ~IsExempt(u)
    /\ u \in DOMAIN StatsGet(stats).users
    /\ StatsGet(stats).users[u].requests = FREE_REQUEST_LIMIT - 1
    /\ StatsGet(stats).users[u].last_reset = current_day

\* C9: a free user with requests = FREE_REQUEST_LIMIT - 1 asks a conversion for
\* which Binance's direct price is 0 and its reversed pair gives p > 0: the
\* request is allowed, the rate used is 1/p, the result is amount/p, requests
\* becomes FREE_REQUEST_LIMIT, and the reply tells "0" requests remaining.
C9_LastFreeRequest ==
    [][\A u \in ZeroUsers :
          (/\ OneLeft(u)
           /\ last'.op = "handle_message"
           /\ last'.user = u
           /\ Len(last'.calls) = 2
           /\ last'.calls[1].resp = Price(0)
           /\ last'.calls[2].resp.kind = "price"
           /\ last'.calls[2].resp.price > 0)
          => /\ last'.reply = "quote"
             /\ last'.rate = Rat(1, last'.calls[2].resp.price)
             /\ last'.result = RDiv(last'.amount, Rat(last'.calls[2].resp.price, 1))
             /\ StatsGet(stats').users[u].requests = FREE_REQUEST_LIMIT
             /\ last'.shown_remaining = "0"]_vars

----------------------------------------------------------------------------
(* One tick of the alerts job over the alerts of two users *)

TickUsers == {"111", "222"}

TickArgs == {<<"usd", "btc", "100">>}

\* What the providers answer to the resolutions of one run of the job.
TickFeeds ==
    {<<f, f, f, f>> : f \in {<<Price(95)>>, <<Null>>, <<>>}}

TickFaults == {"none", "send", "setex"}

\* A user starts the bot when 'stats' does not know the user.
NextTick ==
    \/ \E u \in TickUsers : u \notin DOMAIN StatsGet(stats).users /\ start(u, TRUE, "none")
    \/ \E u \in TickUsers, args \in TickArgs : alert(u, TRUE, args)
    \/ \E feeds \in TickFeeds, fault \in TickFaults : check_alerts_job(feeds, fault)
    \/ TenDays

SpecTick == Init /\ [][NextTick]_vars

\* The alerts a run of the job is to evaluate: those of the users of `order`.
RECURSIVE Standing(_, _)
Standing(order, al) ==
    IF order = <<>> THEN 0
    ELSE Len(ListGet(al[Head(order)])) + Standing(Tail(order), al)

\* C11: no exception raised while one alert is evaluated (by the resolution of
\* its rate or by the handling of the result) ends the tick: a run of
\* check_alerts_job evaluates every alert of every user it is to visit.
C11_TickNotAborted ==
    [][last'.op = "check_alerts_job" =>
          last'.evaluated = Standing(StatsGet(stats).order, alerts)]_vars

\* C12: when the delivery of a notification fails, the alert counts as fired all
\* the same: a run of the job in which send_message raises and which observes a
\* rate <= the target of a user's only alert leaves that alert no longer
\* standing, as a run with a working delivery is to leave it.
C12_FiredThoughUndelivered ==
    [][\A u \in TickUsers, feeds \in TickFeeds :
          (/\ OnlyAlert(u)
           /\ last'.op = "check_alerts_job"
           /\ last'.fault = "send"
           /\ cache' = AlertsJob(<<u>>, 1, cache, alerts, notified, feeds, 1, "send").cache
           /\ Observed(u, feeds) # None
           /\ RLeq(Observed(u, feeds), Rat(100, 1)))
          => ListGet(alerts'[u]) = <<>>]_vars

\* C13: a stored alert stays stored: no run of the job takes an alert out of its
\* list, and no alert goes away because time has passed.
C13_AlertsKeptForever ==
    [][\A u \in TickUsers :
          (alerts[u].present /\ last'.op \in {"check_alerts_job", "time"})
          => /\ alerts'[u].present
             /\ alerts'[u].val = alerts[u].val]_vars

----------------------------------------------------------------------------
(* The history of a user over more than HISTORY_LIMIT conversions *)

\* A call of save_history, as handle_message and button make it after a quote.
\* `last` keeps the list the call found.
SaveHistory(u, from_code, to_code, amount, result, fault) ==
    /\ history' = [history EXCEPT ![u] =
           save_history(history[u], from_code, to_code, amount, result, fault)]
    /\ last' = [Obs("save_history", u, "none") EXCEPT
                   !.from = from_code, !.to = to_code, !.amount = amount, !.result = result,
                   !.fault = fault, !.listing = ListGet(history[u])]
    /\ UNCHANGED <<now, stats, cache, alerts, user_data, quotes, notified, retrying, session>>

HistoryUsers == {"111"}

HistoryFaults == {"none", "setex"}

NextHistory ==
    \/ \E u \in HistoryUsers, fault \in HistoryFaults :
           SaveHistory(u, "USDT", "BTC", One, Rat(2, 1), fault)
    \/ \E u \in HistoryUsers, member \in BOOLEAN : history_command(u, member)
    \/ NextHalfDay

SpecHistory == Init /\ [][NextHistory]_vars

\* C14: the stored history of a user never holds more than HISTORY_LIMIT
\* entries; a call of save_history that writes leaves the new entry last, after
\* the most recent of the entries it found, in their order, the oldest one gone
\* when the list was full; and /history lists the stored entries from the last
\* stored to the first.
C14_HistoryBounded ==
    /\ [](\A u \in HistoryUsers : Len(history[u].val) <= HISTORY_LIMIT)
    /\ [][\A u \in HistoryUsers :
             (last'.op = "save_history" /\ last'.user = u /\ last'.fault = "none") =>
                 LET old == ListGet(history[u])
                     new == history'[u].val
                     kept == Len(new) - 1
                 IN  /\ Len(new) = IF Len(old) < HISTORY_LIMIT THEN Len(old) + 1
                                   ELSE HISTORY_LIMIT
                     /\ new[Len(new)] = [time |-> now, from |-> last'.from, to |-> last'.to,
                                         amount |-> last'.amount, result |-> last'.result]
                     /\ \A i \in 1..kept : new[i] = old[Len(old) - kept + i]]_vars
    /\ [](\A u \in HistoryUsers :
             (last.op = "history" /\ last.user = u /\ last.reply = "listing") =>
                 LET h == ListGet(history[u])
                 IN  /\ Len(last.listing) = Len(h)
                     /\ \A i \in 1..Len(h) : last.listing[i] = h[Len(h) + 1 - i])

\* A call of save_history has found the list full and dropped its oldest entry,
\* which was older than the one that is now the oldest.
C14_Witness ==
    /\ last.op = "save_history"
    /\ last.fault = "none"
    /\ Len(last.listing) = HISTORY_LIMIT
    /\ Len(history[last.user].val) = HISTORY_LIMIT
    /\ last.listing[1].time < history[last.user].val[1].time

----------------------------------------------------------------------------
(* Conversions while the store refuses writes *)

StoreUsers == {"111"}

StoreTexts == {<<"3", "usd", "btc">>}

StoreFeeds == {<<Price(2)>>, <<>>}

StoreFaults == {"none", "setex", "get"}

NextStore ==
    \/ \E u \in StoreUsers : start(u, TRUE, "none")
    \/ \E u \in StoreUsers, member \in BOOLEAN, text \in StoreTexts,
          feed \in StoreFeeds, fault \in StoreFaults :
           handle_message(u, member, text, feed, fault)
    \/ Tick

SpecStore == Init /\ [][NextStore]_vars

\* C15: when the write of a freshly resolved rate to the cache fails with a
\* store error, the conversion still gives the quote and the user still gets the
\* converted amount; the rate is just not cached.
C15_QuoteThoughUncached ==
    [][(/\ last'.op = "handle_message"
        /\ last'.fault = "setex"
        /\ Len(last'.calls) = 1
        /\ IsNum(last'.calls[1].rate))
       => /\ last'.reply = "quote"
          /\ last'.result = RMul(last'.amount, last'.calls[1].rate)
          /\ cache' = cache]_vars

----------------------------------------------------------------------------
(* The quota decision while the quota record cannot be read *)

\* A call of check_limit, as handle_message and button make it.
CheckLimit(u, fault) ==
    /\ last' = [Obs("check_limit", u, "none") EXCEPT
                   !.can_proceed = check_limit(stats, u, fault).can_proceed,
                   !.remaining = check_limit(stats, u, fault).remaining,
                   !.fault = fault]
    /\ UNCHANGED <<now, stats, cache, alerts, history, user_data, quotes, notified, retrying, session>>

LimitUsers == {"1058875848", "111"}

LimitFaults == {"none", "get", "unparsable"}

NextLimit ==
    \/ \E u \in LimitUsers : start(u, TRUE, "none")
    \/ subscribe_command("111", TRUE, TRUE)
    \/ \E paid \in SUBSET {"111"} : check_payment_job(TRUE, paid)
    \/ \E u \in LimitUsers, fault \in LimitFaults : CheckLimit(u, fault)
    \/ NextHalfDay

SpecLimit == Init /\ [][NextLimit]_vars

\* C16: when the quota record cannot be read (the read raises, or what is read
\* is no JSON), check_limit denies every user who is no administrator, with "0"
\* requests left, whatever the record holds; an administrator is let through.
C16_DeniedWhenUnreadable ==
    (last.op = "check_limit" /\ last.fault \in ReadFaults)
    => IF last.user \in ADMIN_IDS
       THEN last.can_proceed /\ last.remaining = Infinity
       ELSE ~last.can_proceed /\ last.remaining = "0"

\* A subscribed user was denied because the record could not be parsed.
C16_Witness ==
    /\ last.op = "check_limit"
    /\ last.fault = "unparsable"
    /\ last.user = "111"
    /\ Subscribed(StatsGet(stats), "111")
    /\ ~last.can_proceed

----------------------------------------------------------------------------
(* Rate resolution: unsupported symbols, bad answers, bridged and reversed rates *)

\* sym is a key of CURRENCIES, in lower or in upper case.
Supported(sym) == \E k \in DOMAIN CURRENCIES : sym \in {k, Upper(k)}

\* C17: for a symbol that is not in CURRENCIES, get_exchange_rate returns the
\* unsupported-currency error at once: no provider is queried, no step of the
\* chain runs and the cache is not written; the symbols are looked up without
\* regard to case, so that a registered symbol in upper case is not turned away.
C17_UnsupportedAtOnce ==
    [][(last'.op = "get_exchange_rate" /\ last'.fault = "none") =>
          IF Supported(last'.from) /\ Supported(last'.to)
          THEN last'.step # "invalid"
          ELSE /\ last'.step = "invalid"
               /\ last'.result = None
               /\ last'.rate_info = <<Word("Unsupported"), Word("currency")>>
               /\ last'.calls = <<>>
               /\ cache' = cache]_vars

\* A call for an unregistered symbol was turned away while the cache held rates.
C17_Witness ==
    /\ last.op = "get_exchange_rate"
    /\ last.to = "xyz"
    /\ last.step = "invalid"
    /\ last.calls = <<>>
    /\ DOMAIN cache # {}

\* The answer carries a price greater than 0.
GoodAnswer(resp) == resp.kind = "price" /\ resp.price > 0

\* C18: a query that times out, fails on the network, or brings a malformed
\* payload (the price missing, null or no number) or a price <= 0 is a failed
\* step and the chain goes on: no exception leaves get_exchange_rate, and the
\* rate of a quote is never a price <= 0.
C18_BadAnswerIsFailedStep ==
    [][(last'.op = "get_exchange_rate" /\ last'.fault = "none") =>
          /\ last'.step # "raised"
          /\ \A i \in 1..Len(last'.calls) :
                 ~GoodAnswer(last'.calls[i].resp) => last'.calls[i].rate = None
          /\ last'.result # None => RLess(Zero, last'.rate)]_vars

\* The steps that go through a bridge asset.
ViaSteps == {"binance_via_usdt", "whitebit_via_usdt", "binance_via_btc"}

\* The queries of a call that gave a rate.
Good(calls) == {i \in 1..Len(calls) : IsNum(calls[i].rate)}

\* C19: a rate bridged through X is rate(from -> X) * rate(X -> to), each leg
\* taken from the direct pair or, failing that, as 1 / the reversed pair; the
\* bridged step fails when a leg fails or the product is not positive.
C19_BridgedIsProduct ==
    [][(last'.op = "get_exchange_rate" /\ last'.step \in ViaSteps) =>
          \E i, j \in Good(last'.calls) :
              /\ i < j
              /\ Good(last'.calls) = {i, j}
              /\ last'.rate = RMul(last'.calls[i].rate, last'.calls[j].rate)
              /\ RLess(Zero, last'.rate)]_vars

\* C20: in every quote the rate the text states is the rate r that gave the
\* result amount * r and that was written to the cache; r of a reversed step is
\* 1 / the price of the reversed pair.
C20_StatedRateIsUsedRate ==
    [][(last'.op = "get_exchange_rate" /\ last'.result # None) =>
          /\ last'.rate_info[4] = Num(last'.rate)
          /\ last'.result = RMul(last'.amount, last'.rate)
          /\ CacheKey(Lower(last'.from), Lower(last'.to)) \in DOMAIN cache'
          /\ cache'[CacheKey(Lower(last'.from), Lower(last'.to))].val = last'.rate
          /\ last'.step \in {"binance_reverse", "whitebit_reverse"} =>
                 last'.rate = Rat(1, last'.calls[Len(last'.calls)].resp.price)]_vars

----------------------------------------------------------------------------
(* The alerts job: whom it visits, what it keeps *)

\* The users of the model in the order of their ids.
TickOrder == <<"111", "222">>

\* C21: on every tick check_alerts_job evaluates every stored alert of every
\* user who has stored alerts, whether or not 'stats' knows the user.
C21_EveryStoredAlert ==
    [][(last'.op = "check_alerts_job" /\ last'.fault = "none") =>
          last'.evaluated = Standing(TickOrder, alerts)]_vars

\* One user storing alerts of two targets for usd -> btc, and the job run on
\* them with the rate above both targets, between them, or not available.
KeepUsers == {"111"}

KeepArgs == {<<"usd", "btc", "100">>, <<"usd", "btc", "1">>}

KeepFeeds == {<<f, f, f>> : f \in {<<Price(120)>>, <<Price(95)>>, <<>>}}

NextKeep ==
    \/ \E u \in KeepUsers : u \notin DOMAIN StatsGet(stats).users /\ start(u, TRUE, "none")
    \/ \E u \in KeepUsers, args \in KeepArgs : alert(u, TRUE, args)
    \/ \E feeds \in KeepFeeds : check_alerts_job(feeds, "none")
    \/ Tick
    \/ TenDays

SpecKeep == Init /\ [][NextKeep]_vars

\* What a run of the job answered by feeds leaves.
JobRun(feeds) ==
    AlertsJob(StatsGet(stats).order, 1, cache, alerts, notified, feeds, 1, "none")

\* The rate the alerts of a run answered by feeds are compared with: every
\* alert of the model is for usd -> btc and every resolution of a run gets the
\* same answers.
RunRate(feeds) == get_exchange_rate(cache, "usd", "btc", One, feeds[1], "none").rate

\* C22: an alert whose rate is above its target, or not available, on a tick
\* stays in the stored list of its user, in the same order among such alerts,
\* and no notification is sent for it on that tick.
C22_UnfiredKept ==
    [][\A u \in KeepUsers, feeds \in KeepFeeds :
          (/\ last'.op = "check_alerts_job"
           /\ cache' = JobRun(feeds).cache
           /\ alerts' = JobRun(feeds).alerts
           /\ notified' = JobRun(feeds).notified)
          => LET Unfired(a) == RunRate(feeds) = None \/ RLess(a.target, RunRate(feeds))
             IN  /\ SelectSeq(ListGet(alerts'[u]), Unfired) = SelectSeq(ListGet(alerts[u]), Unfired)
                 /\ \A i \in Len(notified[u]) + 1 .. Len(notified'[u]) :
                        ~RLess(notified'[u][i].target, RunRate(feeds))]_vars

\* A run of the job found no rate for two different alerts of a user and left
\* both stored.
C22_Witness ==
    /\ last.op = "check_alerts_job"
    /\ last.reply = "done"
    /\ last.evaluated = 2
    /\ Len(ListGet(alerts["111"])) = 2
    /\ ListGet(alerts["111"])[1].target # ListGet(alerts["111"])[2].target

----------------------------------------------------------------------------
(* Two requests of one user at the last free request *)

\* handle_message is a coroutine on one event loop and the Redis client is
\* synchronous: it is suspended only at its awaits, which are the membership
\* check before anything is read (l.653) and the replies.
\* From the throttle test through check_limit to save_stats and
\* get_exchange_rate (l.661-702) nothing else runs, so of two requests received
\* together one goes through that stretch whole before the other enters it: two
\* handle_message steps, one after the other.

\* u has used the whole of today's quota.
NoneLeft(u) ==
    /\ ~IsExempt(u)
    /\ u \in DOMAIN StatsGet(stats).users
    /\ StatsGet(stats).users[u].requests = FREE_REQUEST_LIMIT
    /\ StatsGet(stats).users[u].last_reset = current_day

----------------------------------------------------------------------------
(* save_stats and the date *)

\* The record of u that save_stats starts from: the stored one, or a new one.
StoredRecord(s, u) ==
    IF u \in DOMAIN StatsGet(s).users
    THEN StatsGet(s).users[u]
    ELSE [requests |-> 0, last_reset |-> current_day]

\* C24: after every save_stats(user, .) the user's last_reset is the current
\* date; the counter is 1 if the stored last_reset differed from the current
\* date (reset to 0, then counted), and the stored value plus 1 otherwise.
C24_ResetThenCount ==
    [][\A u \in LimitUsers :
          (last'.op = "start" /\ last'.user = u /\ last'.reply = "menu")
          => /\ u \in DOMAIN StatsGet(stats').users
             /\ StatsGet(stats').users[u].last_reset = current_day
             /\ StatsGet(stats').users[u].requests =
                   IF StoredRecord(stats, u).last_reset # current_day
                   THEN 1
                   ELSE StoredRecord(stats, u).requests + 1]_vars

\* save_stats has found a record of an earlier date with more than one request
\* and left it with one request at the current date.
C24_Witness ==
    /\ last.op = "start"
    /\ last.user = "111"
    /\ current_day = 1
    /\ DOMAIN StatsGet(stats).users = {"111"}
    /\ StatsGet(stats).users["111"] = [requests |-> 1, last_reset |-> 1]
    /\ StatsGet(stats).total_requests >= 3

----------------------------------------------------------------------------
(* Requests that are permitted, and what they leave when no rate is found *)

ServeUsers == {"111"}

\* A conversion, one of a currency the bot does not know, and a text that is
\* no request.
ServeTexts == {<<"usd", "btc">>, <<"usd", "xyz">>, <<"usd">>}

ServeButtons ==
    {[action |-> "convert", from |-> "usd", to |-> "btc"],
     [action |-> "convert", from |-> "usd", to |-> "xyz"]}

ServeFeeds == {<<Price(2)>>, <<>>}

NextServe ==
    \/ \E u \in ServeUsers : start(u, TRUE, "none")
    \/ \E u \in ServeUsers, member \in BOOLEAN, text \in ServeTexts, feed \in ServeFeeds :
           handle_message(u, member, text, feed, "none")
    \/ \E u \in ServeUsers, member \in BOOLEAN, data \in ServeButtons, feed \in ServeFeeds :
           button(u, member, data, feed, TRUE)
    \/ Tick

SpecServe == Init /\ [][NextServe]_vars

\* C25: a conversion request that passes the quota check and whose rate
\* resolution then fails (currency not supported, or no rate found) still adds
\* exactly one to the user's counter of the date.
C25_FailedStillCounted ==
    [][\A u \in ServeUsers :
          (/\ last'.op = "handle_message" /\ last'.user = u
           /\ last'.can_proceed
           /\ last'.reply = "error")
          => /\ last'.result = None
             /\ StoredRecord(stats', u).last_reset = current_day
             /\ StoredRecord(stats', u).requests =
                   (IF StoredRecord(stats, u).last_reset # current_day
                    THEN 0 ELSE StoredRecord(stats, u).requests) + 1
             /\ StatsGet(stats').total_requests = StatsGet(stats).total_requests + 1]_vars

\* A permitted request for which every provider step failed, counted as the
\* user's third of the date.
C25_Witness ==
    /\ last.op = "handle_message"
    /\ last.reply = "error"
    /\ last.can_proceed
    /\ Len(last.calls) > 0
    /\ \A i \in 1..Len(last.calls) : last.calls[i].rate = None
    /\ StoredRecord(stats, "111").requests = 3

\* C30: a history entry is appended for a user only by a conversion of that
\* user that the quota check permitted and that resolved a quote; requests that
\* are denied, throttled, not parsable or without a rate leave the history as
\* it is.
C30_HistoryOnlyWhenServed ==
    [][\A u \in ServeUsers :
          /\ ListGet(history'[u]) # ListGet(history[u])
             => /\ last'.op \in {"handle_message", "button"}
                /\ last'.user = u
                /\ last'.can_proceed
                /\ last'.reply = "quote"
                /\ last'.result # None
                /\ Len(ListGet(history'[u])) = Len(ListGet(history[u])) + 1
                /\ ListGet(history'[u])[Len(ListGet(history'[u]))].result = last'.result
          /\ (last'.user = u /\ last'.reply \in {"join", "wait", "limit", "example", "error"})
             => history' = history]_vars

\* A request without a rate has left a history of one entry as it was.
C30_Witness ==
    /\ last.op = "handle_message"
    /\ last.reply = "error"
    /\ last.can_proceed
    /\ Len(ListGet(history["111"])) = 1

----------------------------------------------------------------------------
(* get_exchange_rate: what it writes, and when it falls back *)

\* A pair with a hard-coded rate; one without; an identity pair; a currency
\* that is not registered.
WritePairs ==
    {<<"UAH", "usdt">>, <<"uah", "btc">>, <<"btc", "BTC">>, <<"usd", "xyz">>}

\* Answers that end the chain at its first, second and third query, that
\* leave a bridge with one leg, and that fail every step.
WriteFeeds ==
    {<<Price(2)>>, <<Err, Price(2)>>, <<Err, Err, Price(4), Price(2)>>,
     <<Err, Err, Price(2)>>, <<>>}

NextWrite ==
    \/ \E pair \in WritePairs, feed \in WriteFeeds :
           GetExchangeRate(pair[1], pair[2], One, feed, "none")
    \/ Tick

SpecWrite == Init /\ [][NextWrite]_vars

\* C26: every resolution that succeeds without the cache (identity, direct,
\* reversed, bridged, hard-coded fallback) leaves its rate under the pair's
\* cache key with TTL CACHE_TIMEOUT when get_exchange_rate returns, and a
\* resolution that fails writes nothing to the cache.
C26_ResolvedIsCached ==
    [][last'.op = "get_exchange_rate" =>
          LET key == CacheKey(Lower(last'.from), Lower(last'.to))
          IN  /\ (last'.reply = "quote" /\ last'.step # "cached")
                 => /\ DOMAIN cache' = DOMAIN cache \cup {key}
                    /\ cache'[key] = [val |-> last'.rate, ttl |-> CACHE_TIMEOUT]
                    /\ \A k \in DOMAIN cache \ {key} : cache'[k] = cache[k]
              /\ last'.reply # "quote" => cache' = cache]_vars

\* Every kind of resolution has been written: the cache holds a hard-coded
\* rate, a provider's rate and an identity rate, and the last call failed.
C26_Witness ==
    /\ last.op = "get_exchange_rate"
    /\ last.reply = "error"
    /\ last.step = "none"
    /\ CacheKey("uah", "usdt") \in DOMAIN cache
    /\ cache[CacheKey("uah", "usdt")].val = UAH_TO_USDT_FALLBACK
    /\ CacheKey("btc", "btc") \in DOMAIN cache
    /\ cache[CacheKey("btc", "btc")].val = One

\* The provider steps of the chain, in the order of the code.
ProviderSteps ==
    <<"binance_direct", "binance_reverse", "binance_via_usdt",
      "whitebit_direct", "whitebit_reverse", "whitebit_via_usdt", "binance_via_btc">>

\* The number of the query that the k-th provider step begins with when every
\* step before it has been run.
RECURSIVE ChainPos(_, _, _)
ChainPos(k, feed, x) ==
    IF k = 1 THEN 1
    ELSE ChainPos(k - 1, feed, x)
         + Len(Step(ProviderSteps[k - 1], feed, ChainPos(k - 1, feed, x), x).calls)

\* Every provider step fails on these answers.
AllFailed(feed, x) ==
    \A k \in 1..Len(ProviderSteps) :
        Step(ProviderSteps[k], feed, ChainPos(k, feed, x), x).rate = None

\* The pair of a call, as the chain sees it.
PairX(from_currency, to_currency) ==
    [from_key |-> Lower(from_currency), to_key |-> Lower(to_currency),
     from_code |-> CURRENCIES[Lower(from_currency)],
     to_code |-> CURRENCIES[Lower(to_currency)]]

\* The call seen in last' is the call for this pair answered by feed.
CallOf(pair, feed, fault) ==
    /\ last'.op = "get_exchange_rate"
    /\ last'.from = pair[1] /\ last'.to = pair[2]
    /\ last'.fault = fault
    /\ last'.calls = get_exchange_rate(cache, pair[1], pair[2], One, feed, fault).calls
    /\ last'.step = get_exchange_rate(cache, pair[1], pair[2], One, feed, fault).step

\* C27: a hard-coded fallback rate is returned only when every provider step
\* (direct, reversed and bridged, on both providers) has failed in that call;
\* and when every step fails and the pair has no fallback entry, the call
\* returns the unavailable result.
C27_FallbackLast ==
    [][\A pair \in WritePairs, feed \in WriteFeeds :
          (/\ CallOf(pair, feed, "none")
           /\ Lower(pair[1]) \in DOMAIN CURRENCIES
           /\ Lower(pair[2]) \in DOMAIN CURRENCIES
           /\ Lower(pair[1]) # Lower(pair[2])
           /\ last'.step # "cached")
          => /\ last'.step = "fallback"
                => /\ AllFailed(feed, PairX(pair[1], pair[2]))
                   /\ last'.rate \in {UAH_TO_USDT_FALLBACK, USDT_TO_UAH_FALLBACK}
             /\ (/\ AllFailed(feed, PairX(pair[1], pair[2]))
                 /\ <<Lower(pair[1]), Lower(pair[2])>> \notin {<<"uah", "usdt">>, <<"usdt", "uah">>})
                => /\ last'.reply = "error"
                   /\ last'.result = None
                   /\ last'.rate_info = <<Word("Rate"), Word("unavailable")>>]_vars

\* The hard-coded rate was returned after a bridge had one leg answered and
\* the other not.
C27_Witness ==
    /\ last.op = "get_exchange_rate"
    /\ last.step = "fallback"
    /\ last.rate = UAH_TO_USDT_FALLBACK
    /\ \E i \in 1..Len(last.calls) : last.calls[i].rate # None

----------------------------------------------------------------------------
(* get_exchange_rate: the queries of one call *)

\* The steps that go through USDT.
ViaUsdtSteps == {"binance_via_usdt", "whitebit_via_usdt"}

\* C28: a bridged quote through a bridge asset (USDT first, then BTC) is tried
\* only when neither the source nor the target currency is that asset; when
\* either is, no bridge-leg query is made for that bridge: with USDT on one
\* side the third query, if any, is WhiteBIT's direct pair and no step through
\* USDT gives the quote; with BTC on one side the call ends after WhiteBIT's
\* USDT bridge (12 queries at most) and no step through BTC gives the quote.
C28_NoBridgeThroughItself ==
    [][(/\ last'.op = "get_exchange_rate"
        /\ Lower(last'.from) \in DOMAIN CURRENCIES
        /\ Lower(last'.to) \in DOMAIN CURRENCIES)
       => /\ "usdt" \in {Lower(last'.from), Lower(last'.to)}
             => /\ last'.step \notin ViaUsdtSteps
                /\ Len(last'.calls) >= 3 => last'.calls[3].api = "WhiteBIT"
          /\ "btc" \in {Lower(last'.from), Lower(last'.to)}
             => /\ last'.step # "binance_via_btc"
                /\ Len(last'.calls) <= 12]_vars

\* The most queries one call can make: two direct and two reversed pairs and
\* three bridges of two legs of two queries each.
MostQueries == 16

\* C29: within one call of get_exchange_rate no (provider, pair symbol) is
\* queried more than once, and the call ends after a bounded number of queries
\* with either a quote or the unavailable result.
C29_EachPairOnce ==
    [][last'.op = "get_exchange_rate"
       => /\ \A i, j \in 1..Len(last'.calls) :
                 (/\ i < j
                  /\ last'.calls[i].api = last'.calls[j].api)
                 => last'.calls[i].pair # last'.calls[j].pair
          /\ Len(last'.calls) <= MostQueries
          /\ last'.reply \in {"quote", "error"}]_vars

----------------------------------------------------------------------------
(* The rates the cache holds *)

PositivePairs == {<<"uah", "btc">>, <<"UAH", "usdt">>}

\* Prices that are zero, negative, or no number of the order, at the direct
\* pair, the reversed pair and a leg of a bridge.
PositiveFeeds ==
    {<<Price(2)>>, <<Price(0), Price(2)>>, <<Price(-1), Price(0), Price(4), Price(2)>>,
     <<NanPrice>>, <<Err, NanPrice>>, <<Err, Err, Price(4), NanPrice>>, <<>>}

NextPositive ==
    \/ \E pair \in PositivePairs, feed \in PositiveFeeds :
           GetExchangeRate(pair[1], pair[2], One, feed, "none")
    \/ Tick

SpecPositive == Init /\ [][NextPositive]_vars

\* C31: in every reachable state every rate held in the rate cache is
\* strictly positive.
C31_CachedRatesPositive ==
    \A k \in DOMAIN cache : IsNum(cache[k].val) /\ RLess(Zero, cache[k].val)

----------------------------------------------------------------------------
(* The life of a cached rate *)

\* C32: a cache hit neither rewrites nor extends the entry: a call answered
\* from the cache leaves every entry with the life it had; the life of an
\* entry grows only when a call that found no live entry for the pair resolves
\* it anew; and as time passes every entry loses that time or is gone.  So a
\* rate cached at t is not served once t + CACHE_TIMEOUT has passed, however
\* often the pair is read in between.
C32_HitDoesNotExtend ==
    [][/\ (last'.op = "get_exchange_rate" /\ last'.step = "cached")
          => /\ cache' = cache
             /\ last'.calls = <<>>
             /\ cache[CacheKey(Lower(last'.from), Lower(last'.to))].ttl > 0
       /\ \A k \in DOMAIN cache' :
             (k \notin DOMAIN cache \/ cache'[k].ttl > cache[k].ttl)
             => /\ last'.op = "get_exchange_rate"
                /\ last'.step # "cached"
                /\ k = CacheKey(Lower(last'.from), Lower(last'.to))
                /\ CacheGet(cache, k) = None
                /\ cache'[k].ttl = CACHE_TIMEOUT
       /\ last'.op = "time"
          => \A k \in DOMAIN cache :
                IF cache[k].ttl > ShortStep
                THEN k \in DOMAIN cache' /\ cache'[k].ttl = cache[k].ttl - ShortStep
                ELSE k \notin DOMAIN cache']_vars

\* A pair was read from the cache when half the life of its entry had gone,
\* and the entry still has just the other half.
C32_Witness ==
    /\ last.op = "get_exchange_rate"
    /\ last.step = "cached"
    /\ last.from = "uah" /\ last.to = "btc"
    /\ cache[CacheKey("uah", "btc")].ttl = CACHE_TIMEOUT - ShortStep

----------------------------------------------------------------------------
(* The counter and the limit *)

\* C33: for a user who is neither admin nor subscribed the stored counter of
\* the current date never exceeds FREE_REQUEST_LIMIT, whatever sequence of
\* /start commands, text conversions and button presses is handled.
C33_CounterWithinLimit ==
    \A u \in ZeroUsers :
        (/\ ~IsExempt(u)
         /\ u \in DOMAIN StatsGet(stats).users
         /\ StatsGet(stats).users[u].last_reset = current_day)
        => StatsGet(stats).users[u].requests <= FREE_REQUEST_LIMIT

----------------------------------------------------------------------------
(* Alerts registered while the job runs *)

\* check_alerts_job reaches its only await, the send of a notification
\* (l.637), after float(rate_info.split()[2]) (l.634), which raises for every
\* quote text; alert has no await between its read of the list and its write
\* (l.399-401).  Neither is suspended between reading and writing a list: a
\* registration and a tick that run together are an alert step and a
\* check_alerts_job step in one order or the other.

\* C35: an alert registered through the alert command is not lost to a tick
\* of check_alerts_job running together with it: after a tick every alert
\* that was stored is stored still, in the same order, unless a notification
\* for it was sent on that tick; and a registration adds its alert behind the
\* stored ones.
C35_RegisteredAlertKept ==
    [][\A u \in KeepUsers :
          /\ last'.op = "check_alerts_job"
             => \/ ListGet(alerts'[u]) = ListGet(alerts[u])
                \/ /\ Len(notified'[u]) > Len(notified[u])
                   /\ \A i \in 1..Len(ListGet(alerts[u])) :
                         \/ \E j \in 1..Len(ListGet(alerts'[u])) :
                                ListGet(alerts'[u])[j] = ListGet(alerts[u])[i]
                         \/ \E j \in Len(notified[u]) + 1 .. Len(notified'[u]) :
                                notified'[u][j].target = ListGet(alerts[u])[i].target
          /\ (last'.op = "alert" /\ last'.user = u /\ last'.reply = "alert_set")
             => /\ Len(ListGet(alerts'[u])) = Len(ListGet(alerts[u])) + 1
                /\ SubSeq(ListGet(alerts'[u]), 1, Len(ListGet(alerts[u]))) = ListGet(alerts[u])]_vars

\* A tick has run on a list of two alerts, the second registered after the
\* first had been through a tick, and both are stored.
C35_Witness ==
    /\ last.op = "check_alerts_job"
    /\ last.evaluated = 1
    /\ last.reply = "error"
    /\ Len(ListGet(alerts["111"])) = 2

----------------------------------------------------------------------------
(* Subscriptions paid for *)

PayUsers == {"111", "222"}

NextPay ==
    \/ \E u \in PayUsers : u \notin DOMAIN StatsGet(stats).users /\ start(u, TRUE, "none")
    \/ \E u \in PayUsers, invoice_ok \in BOOLEAN : subscribe_command(u, TRUE, invoice_ok)
    \/ \E seen \in BOOLEAN, paid \in SUBSET PayUsers : check_payment_job(seen, paid)
    \/ NextHalfDay

SpecPay == Init /\ [][NextPay]_vars

\* C38: in every reachable state the recorded revenue is SUBSCRIPTION_PRICE
\* times the number of users recorded as subscribed: a paid invoice is credited
\* once, however often the payment status is checked afterwards.
C38_RevenueMatchesSubscribers ==
    StatsGet(stats).revenue = SUBSCRIPTION_PRICE * Cardinality(StatsGet(stats).subscriptions)

\* Two users are subscribed, their invoices are gone, and a later check has
\* found nothing to do.
C38_Witness ==
    /\ StatsGet(stats).subscriptions = PayUsers
    /\ StatsGet(stats).revenue = 2 * SUBSCRIPTION_PRICE
    /\ Invoiced = {}
    /\ last.op = "check_payment_job"
    /\ last.reply = "skip"

----------------------------------------------------------------------------
(* Replies that fail *)

MaxSends == 5       \* replies tried for one update

\* retry_send: the handler of the update is awaited again, from its first
\* line, on the same update.
retry_send(member, feed, fault) ==
    /\ retrying.op # ""
    /\ retrying.sends < MaxSends
    /\ \/ /\ retrying.op = "start"
          /\ start(retrying.user, member, fault)
       \/ /\ retrying.op = "handle_message"
          /\ handle_message(retrying.user, member, retrying.text, feed, fault)

\* The reply that failed had timed out: the time of the throttle has passed
\* before retry_send runs the handler again.
SendTimedOut ==
    /\ retrying.op # ""
    /\ ~retrying.waited
    /\ retrying' = [retrying EXCEPT !.waited = TRUE]
    /\ cache' = AgeCache(cache, DELAY_FREE)
    /\ user_data' = AgeUserData(user_data, DELAY_FREE)
    /\ UNCHANGED <<now, stats, alerts, history, last, quotes, notified, session>>

SendUsers == {"111"}

SendTexts == {<<"usd", "btc">>}

SendFeeds == {<<Price(2)>>, <<>>}

SendFaults == {"none", "send"}

\* Updates are handled one after the other: the next one is taken when the
\* handling of the one before has ended.
NextSend ==
    \/ \E u \in SendUsers, fault \in SendFaults :
           retrying.op = "" /\ start(u, TRUE, fault)
    \/ \E u \in SendUsers, text \in SendTexts, feed \in SendFeeds, fault \in SendFaults :
           retrying.op = "" /\ handle_message(u, TRUE, text, feed, fault)
    \/ \E feed \in SendFeeds, fault \in SendFaults : retry_send(TRUE, feed, fault)
    \/ SendTimedOut
    \/ retrying.op = "" /\ Tick

SpecSend == Init /\ [][NextSend]_vars

\* A step of retry_send: the update in hand has been run again.
RetryStep ==
    /\ retrying.op # ""
    /\ retrying'.op = "" \/ retrying'.sends > retrying.sends

\* C36: the handling of one update ends even if every reply fails: the replies
\* tried for one update are at most MAX_RETRIES.
C36_SendsBounded ==
    retrying.sends <= MAX_RETRIES

\* C37: one update adds one to the user's request counter and to the global
\* total at most once: a run of its handler by retry_send, after a run that
\* has counted it, leaves both as they are.
C37_CountedOnce ==
    [][(RetryStep /\ retrying.counted >= 1)
          => /\ StatsGet(stats').total_requests = StatsGet(stats).total_requests
             /\ StatsGet(stats').users = StatsGet(stats).users]_vars

\* C34: a text request that the throttle or the quota check has rejected
\* changes nothing: while it is handled the statistics, the user's counter,
\* the history, the rate cache and last_request are left as they are and no
\* provider is queried.
C34_RejectedChangesNothing ==
    [][(\/ /\ retrying.op = ""
           /\ last'.op = "handle_message"
           /\ last'.reply \in {"wait", "limit"}
        \/ /\ RetryStep
           /\ retrying.op = "handle_message"
           /\ retrying.first \in {"wait", "limit"})
          => /\ UNCHANGED <<stats, history, cache, user_data>>
             /\ last'.calls = <<>>]_vars

----------------------------------------------------------------------------
(* The dashboard *)

ADMIN_PASSWORD == "trust20242024"

\* request.form.get('password') of a form without the field: None.
NoField == "<none>"

\* check_password_hash(ADMIN_PASSWORD_HASH, password): the hash is that of
\* ADMIN_PASSWORD; a password of None raises.
check_password_hash(password) ==
    IF password = NoField THEN "raises"
    ELSE IF password = ADMIN_PASSWORD THEN "true" ELSE "false"

\* get_stats of perfect_bot_web.py: the figures of 'stats', in the order
\* total_users, total_requests, subscriptions, revenue.
get_stats(s) ==
    <<Cardinality(DOMAIN StatsGet(s).users), StatsGet(s).total_requests,
      Cardinality(StatsGet(s).subscriptions), StatsGet(s).revenue>>

\* What a dashboard run is observed as.
Page(op, c, method, password, reply, figures) ==
    [Obs(op, c, reply) EXCEPT !.method = method, !.password = password,
                              !.listing = figures]

\* dashboard of perfect_bot_web.py.  A GET carries no form.
dashboard(c, method, password) ==
    /\ method = "GET" => password = NoField
    /\ IF ~session[c]
       THEN IF method = "POST"
            THEN CASE check_password_hash(password) = "true" ->
                          /\ session' = [session EXCEPT ![c] = TRUE]
                          /\ last' = Page("dashboard", c, method, password, "redirect", <<>>)
                   [] check_password_hash(password) = "false" ->
                          /\ last' = Page("dashboard", c, method, password, "403", <<>>)
                          /\ UNCHANGED session
                   [] OTHER ->
                          /\ last' = Page("dashboard", c, method, password, "500", <<>>)
                          /\ UNCHANGED session
            ELSE /\ last' = Page("dashboard", c, method, password, "form", <<>>)
                 /\ UNCHANGED session
       ELSE /\ last' = Page("dashboard", c, method, password, "statistics", get_stats(stats))
            /\ UNCHANGED session
    /\ UNCHANGED <<now, stats, cache, alerts, history, user_data, quotes, notified, retrying>>

\* /logout of perfect_bot_web.py
logout(c) ==
    /\ session' = [session EXCEPT ![c] = FALSE]
    /\ last' = Page("logout", c, "GET", NoField, "redirect", <<>>)
    /\ UNCHANGED <<now, stats, cache, alerts, history, user_data, quotes, notified, retrying>>

\* get_stats of perfect_bot.py reading the figures from the dict it is handed.
get_stats_context_dict(s) ==
    [raised |-> FALSE, figures |-> get_stats(s)]

\* get_stats(context) of perfect_bot.py, as dashboard calls it: context is a
\* dict (app.bot_context, or {}), and context.bot_data raises AttributeError.
get_stats_context(s) ==
    [raised |-> TRUE, figures |-> <<>>]

\* dashboard of perfect_bot.py: the password is asked of a POST only.
dashboard_password(c, method, password) ==
    /\ method = "GET" => password = NoField
    /\ IF method = "POST" /\ check_password_hash(password) = "false"
       THEN last' = Page("dashboard_password", c, method, password, "403", <<>>)
       ELSE IF method = "POST" /\ check_password_hash(password) = "raises"
       THEN last' = Page("dashboard_password", c, method, password, "500", <<>>)
       ELSE IF get_stats_context(stats).raised
       THEN last' = Page("dashboard_password", c, method, password, "500", <<>>)
       ELSE last' = Page("dashboard_password", c, method, password, "statistics",
                         get_stats_context(stats).figures)
    /\ UNCHANGED <<now, stats, cache, alerts, history, user_data, quotes, notified, retrying, session>>

Methods == {"GET", "POST"}

Passwords == {ADMIN_PASSWORD, "guess", NoField}

WebUsers == {"111", "222"}

NextWeb ==
    \/ \E c \in Clients, method \in Methods, password \in Passwords :
           dashboard(c, method, password)
    \/ \E c \in Clients : logout(c)
    \/ \E c \in Clients, method \in Methods, password \in Passwords :
           dashboard_password(c, method, password)
    \/ \E u \in WebUsers : start(u, TRUE, "none")

SpecWeb == Init /\ [][NextWeb]_vars

\* C39: the dashboard returns the statistics only to an authenticated request:
\* in perfect_bot_web.py to a client whose session was authenticated with the
\* admin password and has not been logged out since, in perfect_bot.py to a
\* request that carries the admin password.  A session becomes authenticated
\* only by a POST of the admin password, and a logout ends it.
C39_StatisticsOnlyAuthenticated ==
    [][\A c \in Clients :
          /\ (last'.user = c /\ last'.reply = "statistics")
             => \/ last'.op = "dashboard" /\ session[c]
                \/ last'.op = "dashboard_password" /\ last'.password = ADMIN_PASSWORD
          /\ (session'[c] /\ ~session[c])
             => /\ last'.op = "dashboard" /\ last'.user = c
                /\ last'.method = "POST" /\ last'.password = ADMIN_PASSWORD
          /\ (last'.op = "logout" /\ last'.user = c) => ~session'[c]]_vars

\* The owner's authenticated session has been shown the figures of two users
\* while the visitor has no session.
C39_Witness ==
    /\ last.op = "dashboard"
    /\ last.user = "owner"
    /\ last.reply = "statistics"
    /\ last.listing = <<2, 2, 0, 0>>
    /\ session["owner"]
    /\ ~session["visitor"]

====
